---------------------------- MODULE Spec2Model ----------------------------
(***************************************************************************)
(* Storm: coordinator-side results aggregation, incident engine, uptime    *)
(* fusion and the TTL read cache of the HTTP layer.                        *)
(*                                                                         *)
(* Time is in milliseconds since the epoch, in UTC (the coordinator's      *)
(* local zone is taken to be UTC, so setHours(0,0,0,0) and toISOString     *)
(* agree on the day).  A date string YYYY-MM-DD is represented by the      *)
(* index of its UTC day (timestamp \div DayMs).                            *)
(***************************************************************************)
EXTENDS Integers, Sequences, FiniteSets, TLC

\* ------------------------------------------------------------------------
\* Program constants
\* ------------------------------------------------------------------------
Null == -1
DayMs == 86400000
ThirtyMinutes == 1800000
minAgentsForDowntime == 2
CACHE_TTL == 10000
LookbackDays == 45

\* ------------------------------------------------------------------------
\* Bounds of the model
\* ------------------------------------------------------------------------
MaxResults == 3
MaxPairResults == 4
MaxSingleResults == 4
MaxUptimeResults == 4
MaxCacheResults == 1
MaxDays == 1
MaxCacheTicks == 4
MaxAgentNumber == 9
MaxRegistrations == 3
MaxRegistryTicks == 2
MaxAuthResults == 2
MaxAlertResults == 3
MaxAlertAgents == 4
MaxStarts == 1
MaxAgentChecks == 2
MaxBucketResults == 3
MaxPresenceTicks == 3
MaxPresenceResults == 1
MaxRetryChecks == 2
MaxShutdownResults == 2
MaxMinted == 3
MaxOrderTicks == 1
MaxStoredQueryResults == 2
MaxStoredQueryTicks == 2
MaxFrameResults == 4
MaxConsensusResults == 4
MaxRolloverDays == 1
MaxRolloverIncidents == 1
MaxRolloverPosts == 3
MaxLoadResults == 3
MaxLoadStarts == 1
MaxTargetTicks == 2
MaxTargets == 2
MaxLastTargetId == 3

\* Agent ids known to the registry, and one id that was never registered.
RegisteredAgents == {"agent-1", "agent-2", "agent-3"}
UnknownAgentId == "agent-9"
Targets == {1, 2}

VARIABLES
  now,           \* wall clock (Date.now())
  agents,        \* AgentManager.agents, by id
  results,       \* ResultsManager.results: <<agentId, targetId, date>> -> DailyDowntimeRecord
  targetStatus,  \* ResultsManager.targetStatus: targetId -> TargetStatus
  file,          \* data/db/results.json
  cache,         \* index.ts cache: key -> [data, timestamp]
  request,       \* the last request or process event handled
  response,      \* the last HTTP response sent
  posts,         \* number of accepted POST /api/results so far
  log,           \* accepted requests in arrival order (history)
  lastAgentId,   \* AgentManager.lastAgentId
  agentsFile,    \* data/db/agents.json
  targets,       \* TargetManager.targets
  lastUpdated,   \* TargetManager.lastUpdated
  lastTargetId,  \* TargetManager.lastTargetId
  targetsFile,   \* data/config/targets.json
  watcher,       \* the chokidar watcher of targets.json
  monitor,       \* the MonitorAgent object of one agent process
  timers         \* the active setInterval timers of that process, by timer id

registryVars == <<lastAgentId, agentsFile>>
targetVars == <<targets, lastUpdated, lastTargetId, targetsFile, watcher>>
monitorVars == <<monitor, timers>>
ext == <<registryVars, targetVars, monitorVars>>

vars == <<now, agents, results, targetStatus, file, cache, request, response, posts, log,
          lastAgentId, agentsFile, targets, lastUpdated, lastTargetId, targetsFile,
          watcher, monitor, timers>>

\* ------------------------------------------------------------------------
\* Small helpers on finite maps
\* ------------------------------------------------------------------------
EmptyMap == [x \in {} |-> TRUE]

Put(f, k, v) == [x \in (DOMAIN f) \cup {k} |-> IF x = k THEN v ELSE f[x]]

Max(a, b) == IF a >= b THEN a ELSE b
Min(a, b) == IF a <= b THEN a ELSE b

\* ------------------------------------------------------------------------
\* ResultsManager helpers
\* ------------------------------------------------------------------------
\* getDateString: the UTC day of a timestamp; a falsy timestamp means today.
getDateString(timestamp, clock) ==
  IF timestamp = 0 \/ timestamp = Null THEN clock \div DayMs ELSE timestamp \div DayMs

calculateDowntimeDurationToNow(startTime, endTime, clock) == clock - startTime

calculateDowntimeDuration(startTime, endTime, clock) ==
  IF endTime = Null THEN clock - startTime ELSE endTime - startTime

NewDailyRecord ==
  [downtimeMs |-> 0, incidents |-> <<>>, responseTimeIntervals |-> <<>>, isDown |-> FALSE]

NewTargetStatus(clock) ==
  [isDown |-> FALSE, agentsReporting |-> EmptyMap, lastUpdated |-> clock]

\* The consensus policy of updateTargetStatus, after the agent's report is stored.
ConsensusAnyDown(reports, isDown) ==
  Cardinality({a \in DOMAIN reports : reports[a]}) >= 1

Consensus(reports, isDown) ==
  LET downCount == Cardinality({a \in DOMAIN reports : reports[a]})
      totalAgents == Cardinality(DOMAIN reports)
  IN  IF totalAgents = 1 THEN isDown ELSE downCount >= minAgentsForDowntime

\* updateTargetStatus deciding on the reports as they were before the
\* agent's new report is stored.
updateTargetStatusOnOldReports(st, targetId, agentId, isDown, clock) ==
  LET status == IF targetId \in DOMAIN st THEN st[targetId] ELSE NewTargetStatus(clock)
      reports == Put(status.agentsReporting, agentId, isDown)
  IN  Put(st, targetId,
          [isDown |-> Consensus(status.agentsReporting, isDown),
           agentsReporting |-> reports,
           lastUpdated |-> clock])

\* updateTargetStatus storing the agent's report under every known target.
updateTargetStatusEveryTarget(st, targetId, agentId, isDown, clock) ==
  [t \in (DOMAIN st) \cup {targetId} |->
     LET status == IF t \in DOMAIN st THEN st[t] ELSE NewTargetStatus(clock)
         reports == Put(status.agentsReporting, agentId, isDown)
     IN  [isDown |-> Consensus(reports, isDown),
          agentsReporting |-> reports,
          lastUpdated |-> clock]]

updateTargetStatus(st, targetId, agentId, isDown, clock) ==
  LET status == IF targetId \in DOMAIN st THEN st[targetId] ELSE NewTargetStatus(clock)
      reports == Put(status.agentsReporting, agentId, isDown)
  IN  Put(st, targetId,
          [isDown |-> Consensus(reports, isDown),
           agentsReporting |-> reports,
           lastUpdated |-> clock])

getOrCreateTargetStatus(st, targetId, clock) ==
  IF targetId \in DOMAIN st THEN st ELSE Put(st, targetId, NewTargetStatus(clock))

\* updateResponseTimeIntervals.  avgResponseTime is kept exactly, as the
\* fraction total / count (the code keeps the quotient as a float).
IndexOfInterval(intervals, s, e) ==
  LET hits == {i \in 1..Len(intervals) :
                 intervals[i].startTime = s /\ intervals[i].endTime = e}
  IN  IF hits = {} THEN 0 ELSE CHOOSE i \in hits : \A j \in hits : i <= j

updateResponseTimeIntervals(intervals, r) ==
  IF ~r.success \/ r.responseTime = Null \/ r.responseTime = 0 THEN intervals
  ELSE
    LET startOfDay == (r.timestamp \div DayMs) * DayMs
        msFromStartOfDay == r.timestamp - startOfDay
        intervalIndex == msFromStartOfDay \div ThirtyMinutes
        intervalStartTime == startOfDay + intervalIndex * ThirtyMinutes
        intervalEndTime == startOfDay + (intervalIndex + 1) * ThirtyMinutes - 1
        i == IndexOfInterval(intervals, intervalStartTime, intervalEndTime)
    IN  IF i = 0
        THEN Append(intervals, [startTime |-> intervalStartTime,
                                endTime |-> intervalEndTime,
                                total |-> r.responseTime,
                                count |-> 1])
        ELSE [intervals EXCEPT ![i] = [@ EXCEPT !.total = @ + r.responseTime,
                                                !.count = @ + 1]]

\* The incident state machine of addResult on the submitting agent's record.
IncidentStepFlagNotSet(rec, isDown, timestamp, clock) ==
  IF isDown /\ ~rec.isDown
  THEN [rec EXCEPT !.incidents = Append(@, [startTime |-> timestamp, endTime |-> Null])]
  ELSE IF ~isDown /\ rec.isDown
  THEN LET n == Len(rec.incidents) IN
       IF n > 0 /\ rec.incidents[n].endTime = Null
       THEN [rec EXCEPT !.incidents[n].endTime = timestamp,
                        !.downtimeMs = @ + calculateDowntimeDuration(
                                             rec.incidents[n].startTime, timestamp, clock),
                        !.isDown = FALSE]
       ELSE rec
  ELSE rec

IncidentStepStartAtClock(rec, isDown, timestamp, clock) ==
  IF isDown /\ ~rec.isDown
  THEN [rec EXCEPT !.incidents = Append(@, [startTime |-> clock, endTime |-> Null]),
                   !.isDown = TRUE]
  ELSE IF ~isDown /\ rec.isDown
  THEN LET n == Len(rec.incidents) IN
       IF n > 0 /\ rec.incidents[n].endTime = Null
       THEN [rec EXCEPT !.incidents[n].endTime = timestamp,
                        !.downtimeMs = @ + calculateDowntimeDuration(
                                             rec.incidents[n].startTime, timestamp, clock),
                        !.isDown = FALSE]
       ELSE rec
  ELSE rec

IncidentStepNeverCloses(rec, isDown, timestamp, clock) ==
  IF isDown /\ ~rec.isDown
  THEN [rec EXCEPT !.incidents = Append(@, [startTime |-> timestamp, endTime |-> Null]),
                   !.isDown = TRUE]
  ELSE rec

IncidentStep(rec, isDown, timestamp, clock) ==
  IF isDown /\ ~rec.isDown
  THEN [rec EXCEPT !.incidents = Append(@, [startTime |-> timestamp, endTime |-> Null]),
                   !.isDown = TRUE]
  ELSE IF ~isDown /\ rec.isDown
  THEN LET n == Len(rec.incidents) IN
       IF n > 0 /\ rec.incidents[n].endTime = Null
       THEN [rec EXCEPT !.incidents[n].endTime = timestamp,
                        !.downtimeMs = @ + calculateDowntimeDuration(
                                             rec.incidents[n].startTime, timestamp, clock),
                        !.isDown = FALSE]
       ELSE rec
  ELSE rec

\* addResult: returns the new results map and target-status map.
addResult(res, st, agentId, r, clock) ==
  LET key == <<agentId, r.targetId, getDateString(r.timestamp, clock)>>
      rec0 == IF key \in DOMAIN res THEN res[key] ELSE NewDailyRecord
      rec1 == [rec0 EXCEPT !.responseTimeIntervals = updateResponseTimeIntervals(@, r)]
      st1 == updateTargetStatus(st, r.targetId, agentId, ~r.success, clock)
      st2 == getOrCreateTargetStatus(st1, r.targetId, clock)
      rec2 == IncidentStep(rec1, st2[r.targetId].isDown, r.timestamp, clock)
  IN  [results |-> Put(res, key, rec2), targetStatus |-> st2]

\* storeResults validates each result of the body before addResult.
ValidResult(r) == r.timestamp # 0 /\ r.timestamp # Null

storeResults(res, st, agentId, r, clock) ==
  IF ValidResult(r) THEN addResult(res, st, agentId, r, clock)
  ELSE [results |-> res, targetStatus |-> st]

\* saveResultsToFile / loadResultsFromFile
saveResultsToFile(res) == [k \in {x \in DOMAIN res : x[1] # ""} |-> res[k]]

RECURSIVE RebuildStatus(_, _, _, _)
RebuildStatus(st, data, keys, clock) ==
  IF keys = {} THEN st
  ELSE LET k == CHOOSE x \in keys : TRUE
           st1 == IF data[k].isDown
                  THEN updateTargetStatus(st, k[2], k[1], TRUE, clock)
                  ELSE st
       IN  RebuildStatus(st1, data, keys \ {k}, clock)

ValidIncidents(incidents) ==
  SelectSeq(incidents, LAMBDA inc : inc.startTime # Null)

\* loadResultsFromFile keeping only the incidents that have ended.
loadResultsFromFileEndedOnly(data, st, clock) ==
  [results |-> [k \in DOMAIN data |->
                  [data[k] EXCEPT !.incidents =
                     SelectSeq(@, LAMBDA inc : inc.endTime # Null)]],
   targetStatus |-> RebuildStatus(st, data, DOMAIN data, clock)]

loadResultsFromFile(data, st, clock) ==
  [results |-> [k \in DOMAIN data |->
                  [data[k] EXCEPT !.incidents = ValidIncidents(@)]],
   targetStatus |-> RebuildStatus(st, data, DOMAIN data, clock)]


\* ------------------------------------------------------------------------
\* Queries of the ResultsManager
\* ------------------------------------------------------------------------
AgentsOf(res) == {k[1] : k \in DOMAIN res}
TargetsOf(res, agentId) == {k[2] : k \in {x \in DOMAIN res : x[1] = agentId}}

OngoingIndex(incidents) ==
  LET open == {i \in 1..Len(incidents) : incidents[i].endTime = Null}
  IN  IF open = {} THEN 0 ELSE CHOOSE i \in open : \A j \in open : i <= j

\* getDailyDowntimeSummary: <<agentId, targetId>> -> total downtime of the day,
\* an ongoing incident counted up to now.
getDailyDowntimeSummary(res, date, clock) ==
  [p \in {<<k[1], k[2]>> : k \in DOMAIN res} |->
     LET key == <<p[1], p[2], date>> IN
     IF key \in DOMAIN res
     THEN LET rec == res[key]
              i == OngoingIndex(rec.incidents)
          IN  rec.downtimeMs +
              (IF i # 0
               THEN calculateDowntimeDuration(rec.incidents[i].startTime, Null, clock)
               ELSE 0)
     ELSE 0]

\* getResponseTimeAverages: <<targetId, agentId>> -> the day's buckets, for the
\* pairs the code gives a non-empty list.
getResponseTimeAverages(res, targetId, date, clock) ==
  LET dateToCheck == IF date = Null THEN getDateString(clock, clock) ELSE date
      keys == {k \in DOMAIN res :
                 /\ k[3] = dateToCheck
                 /\ targetId = Null \/ k[2] = targetId
                 /\ Len(res[k].responseTimeIntervals) > 0}
  IN  [p \in {<<k[2], k[1]>> : k \in keys} |->
         res[<<p[2], p[1], dateToCheck>>].responseTimeIntervals]

\* The clipped incidents calculateUptimePercentage collects for one day:
\* one entry per <<agentId, index>>.
IncidentIds(res, targetId, day) ==
  UNION {{<<a, i>> : i \in 1..Len(res[<<a, targetId, day>>].incidents)} :
           a \in {x \in AgentsOf(res) : <<x, targetId, day>> \in DOMAIN res}}

ClippedStart(res, targetId, day, id) ==
  Max(res[<<id[1], targetId, day>>].incidents[id[2]].startTime, day * DayMs)

ClippedEnd(res, targetId, day, id) ==
  LET endTime == res[<<id[1], targetId, day>>].incidents[id[2]].endTime
  IN  IF endTime # Null /\ endTime # 0
      THEN Min(endTime, (day + 1) * DayMs)
      ELSE (day + 1) * DayMs

\* timelinePoints: timestamp -> net change of the number of incidents.
TimelinePoints(res, targetId, day) ==
  LET ids == IncidentIds(res, targetId, day)
      points == {ClippedStart(res, targetId, day, id) : id \in ids} \cup
                {ClippedEnd(res, targetId, day, id) : id \in ids}
  IN  [p \in points |->
         Cardinality({id \in ids : ClippedStart(res, targetId, day, id) = p})
         - Cardinality({id \in ids : ClippedEnd(res, targetId, day, id) = p})]

\* The sweep over the sorted timeline points.
RECURSIVE Sweep(_, _, _, _, _)
Sweep(timeline, points, currentAgentsDown, lastTimestamp, dailyDowntimeMs) ==
  IF points = {}
  THEN [currentAgentsDown |-> currentAgentsDown, lastTimestamp |-> lastTimestamp,
        dailyDowntimeMs |-> dailyDowntimeMs]
  ELSE LET timestamp == CHOOSE p \in points : \A q \in points : p <= q
       IN  Sweep(timeline, points \ {timestamp},
                 currentAgentsDown + timeline[timestamp],
                 timestamp,
                 dailyDowntimeMs +
                   (IF currentAgentsDown >= minAgentsForDowntime
                    THEN timestamp - lastTimestamp ELSE 0))

\* dailyDowntimeMs of one day of the look-back.
DailyDowntimeMs(res, targetId, day) ==
  LET timeline == TimelinePoints(res, targetId, day)
      swept == Sweep(timeline, DOMAIN timeline, 0, day * DayMs, 0)
  IN  swept.dailyDowntimeMs +
      (IF swept.currentAgentsDown >= minAgentsForDowntime
       THEN (day + 1) * DayMs - swept.lastTimestamp ELSE 0)

HasDataForDay(res, targetId, day) ==
  \E a \in AgentsOf(res) : <<a, targetId, day>> \in DOMAIN res

\* The days the loop of calculateUptimePercentage visits: i = 0 .. 44 from
\* (today - 45 days), so today - 45 .. today - 1.
LookbackDaysOf(clock) ==
  {(clock \div DayMs) - LookbackDays + i : i \in 0..(LookbackDays - 1)}

RECURSIVE SumUp(_, _, _)
SumUp(res, targetId, days) ==
  IF days = {} THEN 0
  ELSE LET d == CHOOSE x \in days : TRUE
           up == DayMs - DailyDowntimeMs(res, targetId, d)
       IN  Max(0, Min(DayMs, up)) + SumUp(res, targetId, days \ {d})

\* calculateUptimePercentage, in hundredths of a percent (the code rounds to
\* two decimals).  The daily percentage is 100 * up / DayMs with up the
\* clamped up-time of the day; the mean over n days, times 100 and rounded,
\* is round(sum(up) / ((DayMs / 10000) * n)).  timeRange is not read.
calculateUptimePercentage(res, targetId, timeRange, clock) ==
  LET days == {d \in LookbackDaysOf(clock) : HasDataForDay(res, targetId, d)}
      daysWithData == Cardinality(days)
      unit == (DayMs \div 10000) * daysWithData
  IN  IF daysWithData = 0 THEN 10000
      ELSE (2 * SumUp(res, targetId, days) + unit) \div (2 * unit)

\* getUptimePercentages: the four windows, each [end - days * DayMs, end].
TimeRange(days, clock) == [days |-> days, end |-> clock]

getUptimePercentages(res, targetId, clock) ==
  [day   |-> calculateUptimePercentage(res, targetId, TimeRange(1, clock), clock),
   week  |-> calculateUptimePercentage(res, targetId, TimeRange(7, clock), clock),
   month |-> calculateUptimePercentage(res, targetId, TimeRange(30, clock), clock),
   year  |-> calculateUptimePercentage(res, targetId, TimeRange(365, clock), clock)]

RECURSIVE SumOver(_, _)
SumOver(f, keys) ==
  IF keys = {} THEN 0
  ELSE LET k == CHOOSE x \in keys : TRUE IN f[k] + SumOver(f, keys \ {k})

RECURSIVE SumField(_, _)
SumField(intervals, field) ==
  IF intervals = <<>> THEN 0
  ELSE (IF field = "total" THEN Head(intervals).total ELSE Head(intervals).count)
       + SumField(Tail(intervals), field)

\* getUptimeData: targetId -> the day's aggregate.  downtimeMs and
\* avgResponseTime are quotients, kept as [num, den].
getUptimeData(res, st, targetId, date, clock) ==
  LET dateToCheck == IF date = Null THEN getDateString(clock, clock) ELSE date
      statuses == IF targetId # Null
                  THEN (IF targetId \in DOMAIN st THEN {targetId} ELSE {})
                  ELSE DOMAIN st
      downtimeSummary == getDailyDowntimeSummary(res, dateToCheck, clock)
      responseTimeData == getResponseTimeAverages(res, Null, dateToCheck, clock)
  IN  [date |-> dateToCheck,
       targets |->
         [t \in statuses |->
            LET reporters == {p \in DOMAIN downtimeSummary : p[2] = t}
                totalDowntimeMs == SumOver(downtimeSummary, reporters)
                agentCount == Cardinality(reporters)
                buckets == {p \in DOMAIN responseTimeData : p[1] = t}
                totalResponseTime ==
                  SumOver([p \in buckets |-> SumField(responseTimeData[p], "total")], buckets)
                responseTimeCount ==
                  SumOver([p \in buckets |-> SumField(responseTimeData[p], "count")], buckets)
            IN  [isDown |-> st[t].isDown,
                 downtimeMs |-> IF agentCount > 0
                                THEN [num |-> totalDowntimeMs, den |-> agentCount]
                                ELSE [num |-> 0, den |-> 1],
                 uptimePercentage |->
                   Min(10000, Max(0, calculateUptimePercentage(
                                        res, t, TimeRange(1, (dateToCheck + 1) * DayMs - 1),
                                        clock))),
                 agentReports |-> [p \in reporters |-> downtimeSummary[p]],
                 avgResponseTime |-> IF responseTimeCount > 0
                                     THEN [num |-> totalResponseTime, den |-> responseTimeCount]
                                     ELSE [num |-> 0, den |-> 1]]]]

\* The latency series of GET /api/latency: targetId -> the points of all
\* agents, as a set of [timestamp, value = total / count, agent].
LatencyData(res, targetId, date, clock) ==
  LET responseTimeData == getResponseTimeAverages(res, targetId, date, clock)
      shown == {p[1] : p \in DOMAIN responseTimeData}
                 \cup (IF targetId # Null THEN {targetId}
                       ELSE {k[2] : k \in DOMAIN res})
  IN  [t \in shown |->
         UNION {{[timestamp |-> responseTimeData[p][i].startTime,
                  value |-> [num |-> responseTimeData[p][i].total,
                             den |-> responseTimeData[p][i].count],
                  agent |-> p[2]] : i \in 1..Len(responseTimeData[p])} :
                p \in {q \in DOMAIN responseTimeData : q[1] = t}}]

\* ------------------------------------------------------------------------
\* HTTP handlers and process events
\* ------------------------------------------------------------------------
Result(targetId, timestamp, success, responseTime) ==
  [targetId |-> targetId, timestamp |-> timestamp, success |-> success,
   responseTime |-> responseTime]

\* updateAgentLastSeen refreshing lastSeen and leaving the status alone.
updateAgentLastSeenKeepingStatus(ag, agentId, clock) ==
  [ag EXCEPT ![agentId] = [@ EXCEPT !.lastSeen = clock]]

updateAgentLastSeen(ag, agentId, clock) ==
  [ag EXCEPT ![agentId] = [@ EXCEPT !.lastSeen = clock, !.status = "online"]]

\* The cache keys POST /api/results deletes.
DeletedKeys == {"latency-data", "uptime-data", "target-status"}

Drop(c, keys) == [k \in (DOMAIN c) \ keys |-> c[k]]

\* Query parameters as they appear in a cache key.
ParamString(v, default) == IF v = Null THEN default ELSE ToString(v)

LatencyKey(targetId, date) ==
  "latency-data-" \o ParamString(targetId, "all") \o "-" \o ParamString(date, "today")

UptimeKey(targetId, date) ==
  "uptime-data-" \o ParamString(targetId, "all") \o "-" \o ParamString(date, "all")

TargetStatusKey == "target-status"

\* getCachedData: the entry served, and the cache afterwards.  An entry holds
\* the data, the time it was computed, and the number of accepted result
\* submissions at that time.
CacheHit(c, key, ttl, clock) == key \in DOMAIN c /\ clock - c[key].timestamp < ttl

getCachedData(c, key, ttl, fresh, clock, submissions) ==
  IF CacheHit(c, key, ttl, clock)
  THEN [entry |-> c[key], cache |-> c]
  ELSE LET e == [data |-> fresh, timestamp |-> clock, computedAt |-> submissions]
       IN  [entry |-> e, cache |-> Put(c, key, e)]

\* POST /api/results with body { results: [r] } and header x-agent-id.
PostResults(agentId, r) ==
  /\ IF agentId \notin DOMAIN agents
     THEN /\ response' = [kind |-> "results", success |-> FALSE, error |-> "Unknown agent"]
          /\ UNCHANGED <<now, agents, results, targetStatus, file, cache, posts>>
     ELSE LET out == storeResults(results, targetStatus, agentId, r, now) IN
          /\ agents' = updateAgentLastSeen(agents, agentId, now)
          /\ results' = out.results
          /\ targetStatus' = out.targetStatus
          /\ file' = saveResultsToFile(out.results)
          /\ cache' = Drop(cache, DeletedKeys)
          /\ posts' = posts + 1
          /\ response' = [kind |-> "results", success |-> TRUE, processed |-> 1]
          /\ UNCHANGED now

\* GET /api/latency?targetId&date
GetLatency(targetId, date) ==
  LET got == getCachedData(cache, LatencyKey(targetId, date), CACHE_TTL,
                           LatencyData(results, targetId, date, now), now, posts)
  IN      /\ cache' = got.cache
      /\ response' = [kind |-> "latency", success |-> TRUE,
                      latencyData |-> got.entry.data,
                      computedAt |-> got.entry.computedAt]
      /\ UNCHANGED <<now, agents, results, targetStatus, file, posts>>

\* GET /api/uptime?targetId&date
GetUptime(targetId, date) ==
  LET fresh == getUptimeData(results, targetStatus, targetId, date, now)
      got == getCachedData(cache, UptimeKey(targetId, date), CACHE_TTL, fresh, now, posts)
  IN      /\ cache' = got.cache
      /\ response' = [kind |-> "uptime", success |-> TRUE,
                      results |-> got.entry.data.targets,
                      date |-> got.entry.data.date,
                      computedAt |-> got.entry.computedAt]
      /\ UNCHANGED <<now, agents, results, targetStatus, file, posts>>

\* GET /api/target-status
GetTargetStatus ==
  LET down == {t \in DOMAIN targetStatus : targetStatus[t].isDown}
      fresh == [currentStatus |-> targetStatus,
                summary |-> [total |-> Cardinality(DOMAIN targetStatus),
                             down |-> Cardinality(down),
                             up |-> Cardinality(DOMAIN targetStatus) - Cardinality(down)]]
      got == getCachedData(cache, TargetStatusKey, CACHE_TTL, fresh, now, posts)
  IN      /\ cache' = got.cache
      /\ response' = [kind |-> "target-status", success |-> TRUE,
                      currentStatus |-> got.entry.data.currentStatus,
                      summary |-> got.entry.data.summary,
                      computedAt |-> got.entry.computedAt]
      /\ UNCHANGED <<now, agents, results, targetStatus, file, posts>>

\* GET /api/targets/:targetId/uptime for a configured target.
GetUptimePercentages(targetId) ==
  /\ response' = [kind |-> "percentages", success |-> TRUE, targetId |-> targetId,
                  uptime |-> getUptimePercentages(results, targetId, now)]
  /\ UNCHANGED <<now, agents, results, targetStatus, file, cache, posts>>

\* POST /api/uptime/reset with the right API key.
ResetUptimeData ==
  /\ results' = EmptyMap
  /\ targetStatus' = EmptyMap
  /\ file' = saveResultsToFile(EmptyMap)
  /\ response' = [kind |-> "reset", success |-> TRUE]
  /\ UNCHANGED <<now, agents, cache, posts>>

\* The coordinator process is restarted: memory is rebuilt from results.json.
Restart ==
  /\ LET out == loadResultsFromFile(file, EmptyMap, now) IN
       /\ results' = out.results
       /\ targetStatus' = out.targetStatus
  /\ agents' = [a \in DOMAIN agents |-> [agents[a] EXCEPT !.status = "offline"]]
  /\ cache' = EmptyMap
  /\ response' = [kind |-> "none"]
  /\ UNCHANGED <<now, file, posts>>

\* The periodic cache cleanup (every minute).
CacheCleanup ==
  /\ \E k \in DOMAIN cache : now - cache[k].timestamp > CACHE_TTL * 2
  /\ cache' = [k \in {x \in DOMAIN cache : ~(now - cache[x].timestamp > CACHE_TTL * 2)}
                 |-> cache[k]]
  /\ UNCHANGED <<now, agents, results, targetStatus, file, response, posts>>

\* Time passes.
Advance(ms) ==
  /\ now' = now + ms
  /\ UNCHANGED <<agents, results, targetStatus, file, cache, response, posts>>

\* ------------------------------------------------------------------------
\* AgentManager
\* ------------------------------------------------------------------------
OFFLINE_THRESHOLD == 2 * 60 * 1000

AgentIdOf(n) == "agent-" \o ToString(n)

\* The number in an id of the form agent-<digits>, 0 for any other id.
NumericAgentId(id) ==
  IF \E n \in 1..MaxAgentNumber : AgentIdOf(n) = id
  THEN CHOOSE n \in 1..MaxAgentNumber : AgentIdOf(n) = id
  ELSE 0

updateLastAgentId(ag) ==
  LET numericIds == {NumericAgentId(id) : id \in DOMAIN ag} \ {0}
  IN  IF numericIds = {} THEN 0
      ELSE CHOOSE n \in numericIds : \A m \in numericIds : m <= n

saveAgentsToFile(ag) == ag

\* loadAgentsFromFile: every stored agent comes back offline.
loadAgentsFromFile(data) ==
  LET loaded == [id \in DOMAIN data |-> [data[id] EXCEPT !.status = "offline"]]
  IN  [agents |-> loaded, lastAgentId |-> updateLastAgentId(loaded)]

AgentsNamed(ag, name) == {id \in DOMAIN ag : ag[id].name = name}

\* registerAgent creating a new entry whatever the name.
registerAgentAlwaysNew(ag, last, name, location, clock) ==
  [agents |-> Put(ag, AgentIdOf(last + 1),
                  [name |-> name, location |-> location,
                   status |-> "online", lastSeen |-> clock]),
   lastAgentId |-> last + 1,
   agentId |-> AgentIdOf(last + 1)]

registerAgent(ag, last, name, location, clock) ==
  IF AgentsNamed(ag, name) # {}
  THEN LET id == CHOOSE x \in AgentsNamed(ag, name) : TRUE IN
         [agents |-> [ag EXCEPT ![id] = [@ EXCEPT !.location = location,
                                                 !.status = "online",
                                                 !.lastSeen = clock]],
          lastAgentId |-> last,
          agentId |-> id]
  ELSE [agents |-> Put(ag, AgentIdOf(last + 1),
                       [name |-> name, location |-> location,
                        status |-> "online", lastSeen |-> clock]),
        lastAgentId |-> last + 1,
        agentId |-> AgentIdOf(last + 1)]

removeAgent(ag, agentId) == [id \in (DOMAIN ag) \ {agentId} |-> ag[id]]

\* checkOfflineAgents marking an agent offline as soon as the threshold
\* is reached.
checkOfflineAgentsAtThreshold(ag, clock) ==
  [id \in DOMAIN ag |->
     IF ag[id].status = "online" /\ clock - ag[id].lastSeen >= OFFLINE_THRESHOLD
     THEN [ag[id] EXCEPT !.status = "offline"]
     ELSE ag[id]]

checkOfflineAgents(ag, clock) ==
  [id \in DOMAIN ag |->
     IF ag[id].status = "online" /\ clock - ag[id].lastSeen > OFFLINE_THRESHOLD
     THEN [ag[id] EXCEPT !.status = "offline"]
     ELSE ag[id]]

\* ------------------------------------------------------------------------
\* Handlers guarded by the API key, and the registry's periodic sweep
\* ------------------------------------------------------------------------
apiKey == "secret"
NoHeader == ""

Unauthorized == [success |-> FALSE, error |-> "Unauthorized: Invalid API key"]

\* String.prototype.trim on a body field: a field is its text with or
\* without surrounding white space.
Trim(field) == field.text

\* sendAlert: posts to the webhook when one is configured; a failed or
\* rejected call is logged.  The result tells whether a message was
\* delivered and whether an error reaches the caller.
sendAlertRaising(webhook) ==
  [delivered |-> webhook = "ok", raised |-> webhook = "fails"]

sendAlert(webhook) ==
  [delivered |-> webhook = "ok", raised |-> FALSE]

\* The incident step of addResult with its call of sendAlert on the
\* transition to down: an error raised there would leave addResult before
\* the incident is pushed.
IncidentStepAlerting(rec, isDown, timestamp, clock, webhook) ==
  IF isDown /\ ~rec.isDown /\ sendAlert(webhook).raised
  THEN rec
  ELSE IncidentStep(rec, isDown, timestamp, clock)

addResultAlerting(res, st, agentId, r, clock, webhook) ==
  LET key == <<agentId, r.targetId, getDateString(r.timestamp, clock)>>
      rec0 == IF key \in DOMAIN res THEN res[key] ELSE NewDailyRecord
      rec1 == [rec0 EXCEPT !.responseTimeIntervals = updateResponseTimeIntervals(@, r)]
      st1 == updateTargetStatus(st, r.targetId, agentId, ~r.success, clock)
      st2 == getOrCreateTargetStatus(st1, r.targetId, clock)
      rec2 == IncidentStepAlerting(rec1, st2[r.targetId].isDown, r.timestamp, clock, webhook)
  IN  [results |-> Put(res, key, rec2), targetStatus |-> st2]

\* POST /api/results with the alert sink in the given condition.
PostResultsAlerting(agentId, r, webhook) ==
  IF agentId \notin DOMAIN agents
  THEN /\ response' = [kind |-> "results", success |-> FALSE, error |-> "Unknown agent"]
       /\ UNCHANGED <<now, agents, results, targetStatus, file, cache, posts>>
  ELSE LET out == IF ValidResult(r)
                  THEN addResultAlerting(results, targetStatus, agentId, r, now, webhook)
                  ELSE [results |-> results, targetStatus |-> targetStatus]
       IN /\ agents' = updateAgentLastSeen(agents, agentId, now)
          /\ results' = out.results
          /\ targetStatus' = out.targetStatus
          /\ file' = saveResultsToFile(out.results)
          /\ cache' = Drop(cache, DeletedKeys)
          /\ posts' = posts + 1
          /\ response' = [kind |-> "results", success |-> TRUE, processed |-> 1]
          /\ UNCHANGED now

\* POST /api/register
PostRegister(key, name, location, webhook) ==
  IF key # apiKey
  THEN /\ response' = [kind |-> "register"] @@ Unauthorized
       /\ UNCHANGED <<agents, lastAgentId, agentsFile>>
  ELSE IF Trim(name) = ""
  THEN /\ response' = [kind |-> "register", success |-> FALSE, error |-> "Invalid agent name"]
       /\ UNCHANGED <<agents, lastAgentId, agentsFile>>
  ELSE IF Trim(location) = ""
  THEN /\ response' = [kind |-> "register", success |-> FALSE,
                       error |-> "Invalid agent location"]
       /\ UNCHANGED <<agents, lastAgentId, agentsFile>>
  ELSE IF sendAlert(webhook).raised
  THEN /\ response' = [kind |-> "register", success |-> FALSE,
                       error |-> "Internal server error"]
       /\ UNCHANGED <<agents, lastAgentId, agentsFile>>
  ELSE LET out == registerAgent(agents, lastAgentId, Trim(name), Trim(location), now) IN
         /\ agents' = out.agents
         /\ lastAgentId' = out.lastAgentId
         /\ agentsFile' = saveAgentsToFile(out.agents)
         /\ response' = [kind |-> "register", success |-> TRUE, agentId |-> out.agentId]

\* POST /api/heartbeat taking an unknown id for a new agent.
PostHeartbeatAdopting(key, agentId) ==
  IF key # apiKey
  THEN /\ response' = [kind |-> "heartbeat"] @@ Unauthorized
       /\ UNCHANGED <<agents, agentsFile>>
  ELSE IF agentId = NoHeader
  THEN /\ response' = [kind |-> "heartbeat", success |-> FALSE,
                       error |-> "Agent ID is required"]
       /\ UNCHANGED <<agents, agentsFile>>
  ELSE /\ agents' = Put(agents, agentId,
                        [name |-> agentId, location |-> "", status |-> "online",
                         lastSeen |-> now])
       /\ agentsFile' = saveAgentsToFile(agents')
       /\ response' = [kind |-> "heartbeat", success |-> TRUE, timestamp |-> now]

\* POST /api/heartbeat
PostHeartbeat(key, agentId) ==
  IF key # apiKey
  THEN /\ response' = [kind |-> "heartbeat"] @@ Unauthorized
       /\ UNCHANGED <<agents, agentsFile>>
  ELSE IF agentId = NoHeader
  THEN /\ response' = [kind |-> "heartbeat", success |-> FALSE,
                       error |-> "Agent ID is required"]
       /\ UNCHANGED <<agents, agentsFile>>
  ELSE IF agentId \in DOMAIN agents
  THEN /\ agents' = updateAgentLastSeen(agents, agentId, now)
       /\ agentsFile' = saveAgentsToFile(agents')
       /\ response' = [kind |-> "heartbeat", success |-> TRUE, timestamp |-> now]
  ELSE /\ response' = [kind |-> "heartbeat", success |-> FALSE, error |-> "Unknown agent"]
       /\ UNCHANGED <<agents, agentsFile>>

\* POST /api/uptime/reset answering whatever the key.
PostUptimeResetOpen(key) == ResetUptimeData

\* POST /api/uptime/reset
PostUptimeReset(key) ==
  IF key # apiKey
  THEN /\ response' = [kind |-> "reset"] @@ Unauthorized
       /\ UNCHANGED <<now, agents, results, targetStatus, file, cache, posts>>
  ELSE ResetUptimeData

\* forceUptimeCheck: refreshes lastUpdated of the statuses it returns.
forceUptimeCheck(st, targetId, clock) ==
  [t \in DOMAIN st |->
     IF targetId = Null \/ targetId = t THEN [st[t] EXCEPT !.lastUpdated = clock] ELSE st[t]]

\* POST /api/uptime/check
PostUptimeCheck(key, targetId) ==
  IF key # apiKey
  THEN /\ response' = [kind |-> "uptime-check"] @@ Unauthorized
       /\ UNCHANGED <<targetStatus, cache>>
  ELSE /\ targetStatus' = forceUptimeCheck(targetStatus, targetId, now)
       /\ cache' = Drop(cache, DeletedKeys)
       /\ response' = [kind |-> "uptime-check", success |-> TRUE]

\* ------------------------------------------------------------------------
\* TargetManager
\* ------------------------------------------------------------------------
\* A target entry of targets.json is a record; a field the file leaves out
\* is absent from the record.
HttpTarget(id, name) ==
  [id |-> id, name |-> name, interval |-> 30000, timeout |-> 5000,
   type |-> "http", url |-> name]

\* The filter of loadTargetsFromFile.
validTarget(target) ==
  /\ {"id", "name", "interval", "timeout", "type"} \subseteq DOMAIN target
  /\ \/ target.type = "http" /\ "url" \in DOMAIN target
     \/ target.type = "icmp" /\ "host" \in DOMAIN target

RECURSIVE MaxTargetId(_, _)
MaxTargetId(ts, maxId) ==
  IF ts = <<>> THEN maxId
  ELSE MaxTargetId(Tail(ts), IF Head(ts).id > maxId THEN Head(ts).id ELSE maxId)

updateLastTargetId(ts) == MaxTargetId(ts, 0)

\* pathExists, readJson and Array.isArray(data.targets) all succeed.
HasTargetsArray(data) == data.kind = "json" /\ "targets" \in DOMAIN data

\* loadTargetsFromFile forgetting the targets when the file cannot be used.
loadTargetsFromFileClearing(data, ts, lastId, updated, clock) ==
  IF HasTargetsArray(data)
  THEN [targets |-> SelectSeq(data.targets, validTarget),
        lastTargetId |-> updateLastTargetId(SelectSeq(data.targets, validTarget)),
        lastUpdated |-> clock]
  ELSE [targets |-> <<>>, lastTargetId |-> 0, lastUpdated |-> clock]

loadTargetsFromFile(data, ts, lastId, updated, clock) ==
  IF HasTargetsArray(data)
  THEN LET validTargets == SelectSeq(data.targets, validTarget) IN
         [targets |-> validTargets,
          lastTargetId |-> updateLastTargetId(validTargets),
          lastUpdated |-> clock]
  ELSE [targets |-> ts, lastTargetId |-> lastId, lastUpdated |-> updated]

\* Array.prototype.findIndex on the id: the first position, 0 for none.
FindIndexById(ts, id) ==
  IF \E i \in 1..Len(ts) : ts[i].id = id
  THEN CHOOSE i \in 1..Len(ts) : ts[i].id = id /\ \A j \in 1..(i - 1) : ts[j].id # id
  ELSE 0

\* addTarget: an id of 0 stands for a target given without an id.
addTarget(ts, lastId, target) ==
  LET existingIndex == FindIndexById(ts, target.id) IN
    IF existingIndex # 0
    THEN [targets |-> [ts EXCEPT ![existingIndex] = target], lastTargetId |-> lastId]
    ELSE IF target.id # 0
    THEN [targets |-> Append(ts, target), lastTargetId |-> lastId]
    ELSE [targets |-> Append(ts, [target EXCEPT !.id = lastId + 1]),
          lastTargetId |-> lastId + 1]

removeTarget(ts, targetId) == SelectSeq(ts, LAMBDA t : t.id # targetId)

\* updateTarget: Object.assign(target, updates) on the first target found.
updateTarget(ts, targetId, updates) ==
  LET index == FindIndexById(ts, targetId) IN
    IF index = 0 THEN ts ELSE [ts EXCEPT ![index] = updates @@ @]

saveTargetsToFile(ts) == [kind |-> "json", targets |-> ts]

hasUpdatedSince(updated, timestamp) == updated > timestamp

\* GET /api/targets/check-updates: the query is the record of its
\* parameters.
GetCheckUpdates(query) ==
  LET lastUpdate == IF "lastUpdate" \in DOMAIN query THEN query.lastUpdate ELSE 0
      hasUpdates == hasUpdatedSince(lastUpdated, lastUpdate)
  IN  response' = [kind |-> "check-updates", success |-> TRUE,
                   hasUpdates |-> hasUpdates,
                   targets |-> IF hasUpdates THEN targets ELSE <<>>]

\* GET /api/targets
GetTargets(agentId) ==
  IF agentId # NoHeader /\ agentId \notin DOMAIN agents
  THEN response' = [kind |-> "targets", success |-> FALSE, error |-> "Unknown agent"]
  ELSE response' = [kind |-> "targets", success |-> TRUE, targets |-> targets]

\* ------------------------------------------------------------------------
\* MonitorAgent
\* ------------------------------------------------------------------------
\* monitor holds the fields of the MonitorAgent object: isRunning,
\* targets, checkIntervals (key -> timer id), lastTargetsUpdate and the
\* registered id; pc is the position of start(), poll the position of the
\* update poller's callback, checks the number of check() calls in
\* progress per target, nextTimer the id the next setInterval returns and
\* starts the number of calls of start().  timers holds the intervals
\* that are set and not cleared: timer id -> [kind, target].
TargetIds == {1, 2, 3}

NewMonitor ==
  [pc |-> "new", poll |-> "idle", isRunning |-> FALSE, agentId |-> NoHeader,
   targets |-> <<>>, checkIntervals |-> EmptyMap, lastTargetsUpdate |-> 0,
   checks |-> [t \in TargetIds |-> 0], nextTimer |-> 1, starts |-> 0]

\* setInterval(callback, ...) followed by checkIntervals.set(key, interval)
SetInterval(s, key, kind, target) ==
  [monitor |-> [s.monitor EXCEPT
                  !.checkIntervals = Put(@, key, s.monitor.nextTimer),
                  !.nextTimer = @ + 1],
   timers |-> Put(s.timers, s.monitor.nextTimer, [kind |-> kind, target |-> target])]

\* checkIntervals.forEach(clearInterval) over the given keys, and their
\* removal from the map
ClearIntervals(s, keys) ==
  [monitor |-> [s.monitor EXCEPT !.checkIntervals = Drop(@, keys)],
   timers |-> Drop(s.timers, {s.monitor.checkIntervals[k] :
                               k \in keys \cap DOMAIN s.monitor.checkIntervals})]

\* The first statement of check(): it goes on only when the agent runs.
BeginCheck(m, targetId) ==
  IF m.isRunning THEN [m EXCEPT !.checks[targetId] = @ + 1] ELSE m

startHeartbeat(s) == SetInterval(s, "heartbeat", "heartbeat", 0)

\* startTargetCheck: a new interval stored under the target's id, and an
\* immediate call of check().
startTargetCheck(s, target) ==
  LET set == SetInterval(s, ToString(target.id), "check", target.id) IN
    [set EXCEPT !.monitor = BeginCheck(@, target.id)]

RECURSIVE ForEachStartTargetCheck(_, _)
ForEachStartTargetCheck(s, ts) ==
  IF ts = <<>> THEN s
  ELSE ForEachStartTargetCheck(startTargetCheck(s, Head(ts)), Tail(ts))

updateTargets(s, newTargets) ==
  LET cleared == ClearIntervals(s, DOMAIN s.monitor.checkIntervals)
      replaced == [cleared EXCEPT !.monitor.targets = newTargets]
  IN  ForEachStartTargetCheck(replaced, newTargets)

startTargetChecks(s) == ForEachStartTargetCheck(s, s.monitor.targets)

startTargetUpdateChecks(s) == SetInterval(s, "targetUpdates", "poll", 0)

stopTargetChecks(s) ==
  ClearIntervals(s, DOMAIN s.monitor.checkIntervals \ {"heartbeat", "targetUpdates"})

\* fetchTargets after the server's answer: the answer of GET /api/targets
\* carries no lastUpdated, so the agent's clock is stored.
fetchTargets(s, data, clock) ==
  LET updated == updateTargets(s, data.targets) IN
    [updated EXCEPT !.monitor.lastTargetsUpdate =
                      IF "lastUpdated" \in DOMAIN data THEN data.lastUpdated ELSE clock]

stop(s) ==
  LET cleared == ClearIntervals(s, DOMAIN s.monitor.checkIntervals) IN
    [cleared EXCEPT !.monitor.isRunning = FALSE, !.monitor.pc = "stopped"]

\* ------------------------------------------------------------------------
\* Initial state: the coordinator has started with an empty store and the
\* agents have registered.
\* ------------------------------------------------------------------------
StartClock == 2 * DayMs

InitAgents == [a \in RegisteredAgents |->
                 [name |-> a, status |-> "online", lastSeen |-> StartClock]]

Init ==
  /\ now = StartClock
  /\ agents = InitAgents
  /\ results = EmptyMap
  /\ targetStatus = EmptyMap
  /\ file = EmptyMap
  /\ cache = EmptyMap
  /\ request = [kind |-> "none"]
  /\ response = [kind |-> "none"]
  /\ posts = 0
  /\ log = <<>>
  /\ lastAgentId = updateLastAgentId(InitAgents)
  /\ agentsFile = saveAgentsToFile(InitAgents)
  /\ targets = <<>>
  /\ lastUpdated = StartClock
  /\ lastTargetId = 0
  /\ targetsFile = [kind |-> "missing"]
  /\ watcher = [active |-> TRUE, pending |-> FALSE]
  /\ monitor = NewMonitor
  /\ timers = EmptyMap

\* The result submissions of a set of agents.  A failure carries no
\* response time the aggregator reads.  With traced, the request handled
\* is recorded.
SubmitFrom(agentIds, targetIds, stamps, responseTimes, traced) ==
  \E a \in agentIds, t \in targetIds, ts \in stamps, ok \in BOOLEAN :
    \E rt \in (IF ok THEN responseTimes ELSE {Null}) :
      /\ PostResults(a, Result(t, ts, ok, rt))
      /\ request' = IF traced
                    THEN [kind |-> "results", agentId |-> a,
                          result |-> Result(t, ts, ok, rt)]
                    ELSE request

\* ------------------------------------------------------------------------
\* Spec: the aggregator with three agents and two targets
\* ------------------------------------------------------------------------
Stamps == {1000, 2000, DayMs + 1000}

Submit ==
  /\ posts < MaxResults
  /\ SubmitFrom(RegisteredAgents, Targets, Stamps, {50}, FALSE)
  /\ UNCHANGED <<log, ext>>

ResetStep == ResetUptimeData /\ UNCHANGED <<request, log, ext>>

RestartStep == Restart /\ UNCHANGED <<request, log, ext>>

Next == Submit \/ ResetStep \/ RestartStep

Spec == Init /\ [][Next]_vars

\* ------------------------------------------------------------------------
\* SpecPair: two agents on one target, longer runs, requests recorded
\* ------------------------------------------------------------------------
SubmitPair ==
  /\ posts < MaxPairResults
  /\ SubmitFrom({"agent-1", "agent-2"}, {1}, Stamps, {50}, TRUE)
  /\ UNCHANGED <<log, ext>>

RestartPair == Restart /\ request' = [kind |-> "restart"] /\ UNCHANGED <<log, ext>>

NextPair == SubmitPair \/ RestartPair

SpecPair == Init /\ [][NextPair]_vars

\* ------------------------------------------------------------------------
\* SpecSingle: the accepted results are recorded in arrival order
\* ------------------------------------------------------------------------
StampsSingle == {0, 1000, 2000, 3000, DayMs + 1000}

SubmitSingle ==
  /\ posts < MaxSingleResults
  /\ SubmitFrom({"agent-1"}, {1}, StampsSingle, {50}, TRUE)
  /\ log' = IF ValidResult(request'.result)
            THEN Append(log, [agentId |-> request'.agentId, result |-> request'.result])
            ELSE log
  /\ UNCHANGED ext

RestartSingle == Restart /\ request' = [kind |-> "restart"] /\ UNCHANGED <<log, ext>>

NextSingle == SubmitSingle \/ RestartSingle

SpecSingle == Init /\ [][NextSingle]_vars

\* ------------------------------------------------------------------------
\* SpecUptime: incidents of minutes, days passing, the window query
\* ------------------------------------------------------------------------
TenMinutes == 10 * 60 * 1000
StampsUptime == {TenMinutes, 2 * TenMinutes, 3 * TenMinutes, 4 * TenMinutes}

SubmitUptime ==
  /\ posts < MaxUptimeResults
  /\ SubmitFrom({"agent-1", "agent-2"}, {1}, StampsUptime, {50}, FALSE)
  /\ UNCHANGED <<log, ext>>

AdvanceDay ==
  /\ now < StartClock + MaxDays * DayMs
  /\ Advance(DayMs)
  /\ UNCHANGED <<request, log, ext>>

QueryPercentages == GetUptimePercentages(1) /\ UNCHANGED <<request, log, ext>>

NextUptime == SubmitUptime \/ AdvanceDay \/ QueryPercentages

SpecUptime == Init /\ [][NextUptime]_vars

\* ------------------------------------------------------------------------
\* SpecCache: result submissions interleaved with the cached queries
\* ------------------------------------------------------------------------
TickMs == 6 * 1000

SubmitCache ==
  /\ posts < MaxCacheResults
  /\ SubmitFrom({"agent-1", UnknownAgentId}, {1}, {1000, 2000}, {50}, FALSE)
  /\ UNCHANGED <<log, ext>>

AdvanceSeconds ==
  /\ now < StartClock + MaxCacheTicks * TickMs
  /\ Advance(TickMs)
  /\ UNCHANGED <<request, log, ext>>

QueryLatency ==
  /\ \E q \in {<<Null, Null>>, <<1, 0>>} : GetLatency(q[1], q[2])
  /\ UNCHANGED <<request, log, ext>>

QueryUptime ==
  /\ GetUptime(1, 0)
  /\ UNCHANGED <<request, log, ext>>

QueryTargetStatus == GetTargetStatus /\ UNCHANGED <<request, log, ext>>

CleanupStep == CacheCleanup /\ UNCHANGED <<request, log, ext>>

NextCache ==
  \/ SubmitCache
  \/ AdvanceSeconds
  \/ QueryLatency
  \/ QueryUptime
  \/ QueryTargetStatus
  \/ CleanupStep

SpecCache == Init /\ [][NextCache]_vars

\* ------------------------------------------------------------------------
\* SpecRegistry: registration, heartbeats, the liveness sweep and restarts
\* ------------------------------------------------------------------------
Keys == {apiKey, "wrong", NoHeader}
Webhooks == {"unset", "fails", "ok"}
RawNames == {[text |-> "eu-1", padded |-> FALSE], [text |-> "eu-1", padded |-> TRUE],
             [text |-> "us-1", padded |-> FALSE], [text |-> "", padded |-> TRUE]}
RawLocations == {[text |-> "lab", padded |-> FALSE], [text |-> "", padded |-> FALSE]}
HeaderAgentIds == {"agent-1", "agent-2", UnknownAgentId, NoHeader}
NinetySeconds == 90 * 1000

InitRegistry ==
  /\ now = StartClock
  /\ agents = EmptyMap
  /\ results = EmptyMap
  /\ targetStatus = EmptyMap
  /\ file = EmptyMap
  /\ cache = EmptyMap
  /\ request = [kind |-> "none"]
  /\ response = [kind |-> "none"]
  /\ posts = 0
  /\ log = <<>>
  /\ lastAgentId = 0
  /\ agentsFile = EmptyMap
  /\ targets = <<>>
  /\ lastUpdated = StartClock
  /\ lastTargetId = 0
  /\ targetsFile = [kind |-> "missing"]
  /\ watcher = [active |-> TRUE, pending |-> FALSE]
  /\ monitor = NewMonitor
  /\ timers = EmptyMap

\* The accepted registrations are recorded in log, in arrival order.
Register ==
  /\ Len(log) < MaxRegistrations
  /\ \E key \in Keys, name \in RawNames, location \in RawLocations :
       /\ PostRegister(key, name, location, "unset")
       /\ request' = [kind |-> "register", key |-> key, name |-> name,
                      location |-> location]
  /\ log' = IF response'.success
            THEN Append(log, [name |-> Trim(request'.name), agentId |-> response'.agentId])
            ELSE log
  /\ UNCHANGED <<now, results, targetStatus, file, cache, posts, targetVars, monitorVars>>

Heartbeat ==
  /\ \E key \in Keys, agentId \in HeaderAgentIds :
       /\ PostHeartbeat(key, agentId)
       /\ request' = [kind |-> "heartbeat", key |-> key, agentId |-> agentId]
  /\ UNCHANGED <<now, results, targetStatus, file, cache, posts, log, lastAgentId,
                 targetVars, monitorVars>>

\* The 30 s interval of index.ts calling checkOfflineAgents.
SweepOffline ==
  /\ agents' = checkOfflineAgents(agents, now)
  /\ agentsFile' = IF agents' # agents THEN saveAgentsToFile(agents') ELSE agentsFile
  /\ request' = [kind |-> "sweep"]
  /\ UNCHANGED <<now, results, targetStatus, file, cache, response, posts, log,
                 lastAgentId, targetVars, monitorVars>>

\* The coordinator process is restarted: the registry is reloaded from
\* agents.json and the store from results.json.
RestartCoordinator ==
  /\ LET loaded == loadAgentsFromFile(agentsFile) IN
       /\ agents' = loaded.agents
       /\ lastAgentId' = loaded.lastAgentId
  /\ LET out == loadResultsFromFile(file, EmptyMap, now) IN
       /\ results' = out.results
       /\ targetStatus' = out.targetStatus
  /\ cache' = EmptyMap
  /\ request' = [kind |-> "restart"]
  /\ response' = [kind |-> "none"]
  /\ UNCHANGED <<now, file, posts, log, agentsFile, targetVars, monitorVars>>

AdvanceRegistry ==
  /\ now < StartClock + MaxRegistryTicks * NinetySeconds
  /\ Advance(NinetySeconds)
  /\ request' = [kind |-> "tick"]
  /\ UNCHANGED <<log, ext>>

NextRegistry ==
  \/ Register
  \/ Heartbeat
  \/ SweepOffline
  \/ RestartCoordinator
  \/ AdvanceRegistry

SpecRegistry == InitRegistry /\ [][NextRegistry]_vars

\* ------------------------------------------------------------------------
\* SpecAuth: requests with good and bad API keys and agent ids
\* ------------------------------------------------------------------------
SubmitAuth ==
  /\ posts < MaxAuthResults
  /\ SubmitFrom({"agent-1", UnknownAgentId}, {1}, {1000}, {50}, TRUE)
  /\ agentsFile' = IF agents' # agents THEN saveAgentsToFile(agents') ELSE agentsFile
  /\ UNCHANGED <<log, lastAgentId, targetVars, monitorVars>>

UptimeReset ==
  /\ \E key \in Keys :
       /\ PostUptimeReset(key)
       /\ request' = [kind |-> "reset", key |-> key]
  /\ UNCHANGED <<log, ext>>

UptimeCheck ==
  /\ \E key \in Keys, targetId \in {Null, 1} :
       /\ PostUptimeCheck(key, targetId)
       /\ request' = [kind |-> "uptime-check", key |-> key, targetId |-> targetId]
  /\ UNCHANGED <<now, agents, results, file, posts, log, ext>>

NextAuth ==
  \/ Register
  \/ Heartbeat
  \/ SubmitAuth
  \/ UptimeReset
  \/ UptimeCheck

SpecAuth == InitRegistry /\ [][NextAuth]_vars

\* ------------------------------------------------------------------------
\* SpecTargets: targets.json, its watcher, the programmatic edits and the
\* change check
\* ------------------------------------------------------------------------
StabilityThreshold == 300

FileContents ==
  {[kind |-> "unparsable"],
   [kind |-> "json"],
   [kind |-> "json", targets |-> <<HttpTarget(1, "a"), HttpTarget(3, "c")>>],
   [kind |-> "json", targets |-> <<HttpTarget(1, "a"), [id |-> 2, name |-> "b"]>>],
   [kind |-> "json", targets |-> <<HttpTarget(1, "a"), HttpTarget(1, "b")>>]}

InitTargets ==
  /\ now = StartClock
  /\ agents = EmptyMap
  /\ results = EmptyMap
  /\ targetStatus = EmptyMap
  /\ file = EmptyMap
  /\ cache = EmptyMap
  /\ request = [kind |-> "none"]
  /\ response = [kind |-> "none"]
  /\ posts = 0
  /\ log = <<>>
  /\ lastAgentId = 0
  /\ agentsFile = EmptyMap
  /\ targets = <<HttpTarget(1, "a"), HttpTarget(2, "b")>>
  /\ lastUpdated = StartClock
  /\ lastTargetId = 2
  /\ targetsFile = saveTargetsToFile(targets)
  /\ watcher = [active |-> TRUE, pending |-> FALSE]
  /\ monitor = NewMonitor
  /\ timers = EmptyMap

serverVars == <<agents, results, targetStatus, file, cache, posts, log, registryVars>>

\* Somebody rewrites targets.json; the watcher will report the change once
\* the file has been stable for the threshold.
WriteTargetsFile ==
  /\ \E data \in FileContents : targetsFile' = data
  /\ watcher' = [watcher EXCEPT !.pending = TRUE]
  /\ request' = [kind |-> "write"]
  /\ UNCHANGED <<now, response, serverVars, targets, lastUpdated, lastTargetId, monitorVars>>

\* targets.json is deleted: no 'change' event is raised for it.
DeleteTargetsFile ==
  /\ targetsFile' = [kind |-> "missing"]
  /\ request' = [kind |-> "unlink"]
  /\ UNCHANGED <<now, response, serverVars, targets, lastUpdated, lastTargetId, watcher,
                 monitorVars>>

\* The watcher's 'change' handler: it runs when the file has been stable
\* for the threshold, so that much time has passed since the write.  The
\* outcome of each reload is recorded in log.
WatcherChange ==
  /\ watcher.active
  /\ watcher.pending
  /\ now < StartClock + MaxTargetTicks * StabilityThreshold
  /\ now' = now + StabilityThreshold
  /\ LET out == loadTargetsFromFile(targetsFile, targets, lastTargetId, lastUpdated, now') IN
       /\ targets' = out.targets
       /\ lastTargetId' = out.lastTargetId
       /\ lastUpdated' = out.lastUpdated
  /\ watcher' = [watcher EXCEPT !.pending = FALSE]
  /\ request' = [kind |-> "change"]
  /\ log' = Append(log, [loaded |-> HasTargetsArray(targetsFile)])
  /\ UNCHANGED <<response, agents, results, targetStatus, file, cache, posts,
                 registryVars, targetsFile, monitorVars>>

\* The write of saveTargetsToFile is itself a change of the watched file.
SavedTargets ==
  /\ targetsFile' = saveTargetsToFile(targets')
  /\ watcher' = [watcher EXCEPT !.pending = TRUE]

AddTarget ==
  /\ Len(targets) < MaxTargets
  /\ lastTargetId < MaxLastTargetId
  /\ \E target \in {HttpTarget(0, "n"), HttpTarget(1, "a")} :
       LET out == addTarget(targets, lastTargetId, target) IN
         /\ targets' = out.targets
         /\ lastTargetId' = out.lastTargetId
         /\ request' = [kind |-> "addTarget", target |-> target]
  /\ lastUpdated' = now
  /\ SavedTargets
  /\ UNCHANGED <<now, response, serverVars, monitorVars>>

UpdateTarget ==
  /\ \E targetId \in {2}, updates \in {[name |-> "a"], [id |-> 1]} :
       /\ targets' = updateTarget(targets, targetId, updates)
       /\ request' = [kind |-> "updateTarget", targetId |-> targetId, updates |-> updates]
       /\ IF FindIndexById(targets, targetId) # 0
          THEN lastUpdated' = now /\ SavedTargets
          ELSE UNCHANGED <<lastUpdated, targetsFile, watcher>>
  /\ UNCHANGED <<now, response, serverVars, lastTargetId, monitorVars>>

RemoveTarget ==
  /\ \E targetId \in {2, 3} :
       /\ targets' = removeTarget(targets, targetId)
       /\ request' = [kind |-> "removeTarget", targetId |-> targetId]
  /\ IF Len(targets') < Len(targets)
     THEN lastUpdated' = now /\ SavedTargets
     ELSE UNCHANGED <<lastUpdated, targetsFile, watcher>>
  /\ UNCHANGED <<now, response, serverVars, lastTargetId, monitorVars>>

\* An agent sends the version it holds as lastChecked.
CheckUpdates ==
  /\ \E v \in {0, lastUpdated} :
       \E query \in {[lastChecked |-> v], [lastUpdate |-> v]} :
         /\ GetCheckUpdates(query)
         /\ request' = [kind |-> "check-updates", query |-> query]
  /\ UNCHANGED <<now, serverVars, targetVars, monitorVars>>

NextTargets ==
  \/ WriteTargetsFile
  \/ DeleteTargetsFile
  \/ WatcherChange
  \/ AddTarget
  \/ UpdateTarget
  \/ RemoveTarget
  \/ CheckUpdates

SpecTargets == InitTargets /\ [][NextTargets]_vars

\* ------------------------------------------------------------------------
\* SpecAlert: results and registrations with the webhook unset, failing
\* and answering
\* ------------------------------------------------------------------------
SubmitAlert ==
  /\ posts < MaxAlertResults
  /\ \E a \in {"agent-1", "agent-2"}, ts \in {1000, 2000}, ok \in BOOLEAN,
        webhook \in Webhooks :
       LET r == Result(1, ts, ok, IF ok THEN 50 ELSE Null) IN
         /\ PostResultsAlerting(a, r, webhook)
         /\ request' = [kind |-> "results", agentId |-> a, result |-> r,
                        webhook |-> webhook]
  /\ UNCHANGED <<log, ext>>

RegisterAlert ==
  /\ lastAgentId < MaxAlertAgents
  /\ \E webhook \in Webhooks :
       /\ PostRegister(apiKey, [text |-> "eu-1", padded |-> FALSE],
                       [text |-> "lab", padded |-> FALSE], webhook)
       /\ request' = [kind |-> "register", webhook |-> webhook]
  /\ UNCHANGED <<now, results, targetStatus, file, cache, posts, log, targetVars,
                 monitorVars>>

NextAlert ==
  \/ SubmitAlert
  \/ RegisterAlert

SpecAlert == Init /\ [][NextAlert]_vars

\* ------------------------------------------------------------------------
\* SpecAgent: one agent process against the coordinator
\* ------------------------------------------------------------------------
AgentState == [monitor |-> monitor, timers |-> timers]

InitAgent ==
  /\ now = StartClock
  /\ agents = EmptyMap
  /\ results = EmptyMap
  /\ targetStatus = EmptyMap
  /\ file = EmptyMap
  /\ cache = EmptyMap
  /\ request = [kind |-> "none"]
  /\ response = [kind |-> "none"]
  /\ posts = 0
  /\ log = <<>>
  /\ lastAgentId = 0
  /\ agentsFile = EmptyMap
  /\ targets = <<HttpTarget(1, "a"), HttpTarget(2, "b")>>
  /\ lastUpdated = StartClock
  /\ lastTargetId = 2
  /\ targetsFile = saveTargetsToFile(targets)
  /\ watcher = [active |-> TRUE, pending |-> FALSE]
  /\ monitor = NewMonitor
  /\ timers = EmptyMap

storeVars == <<results, targetStatus, file, cache, posts>>

\* start() up to its second await: register() is answered, the heartbeat
\* is started and the request of fetchTargets is sent.
StartRegister ==
  /\ monitor.pc \in {"new", "stopped"}
  /\ ~monitor.isRunning
  /\ monitor.starts < MaxStarts
  /\ PostRegister(apiKey, [text |-> "eu-1", padded |-> FALSE],
                  [text |-> "lab", padded |-> FALSE], "unset")
  /\ LET registered == [monitor EXCEPT !.agentId = response'.agentId,
                                       !.pc = "fetching", !.starts = @ + 1]
         out == startHeartbeat([monitor |-> registered, timers |-> timers])
     IN  monitor' = out.monitor /\ timers' = out.timers
  /\ request' = [kind |-> "start"]
  /\ UNCHANGED <<now, storeVars, log, targetVars>>

\* The answer of GET /api/targets arrives: fetchTargets completes and
\* start() runs to its end.
StartFetched ==
  /\ monitor.pc = "fetching"
  /\ GetTargets(monitor.agentId)
  /\ LET fetched == fetchTargets(AgentState, response', now)
         checking == startTargetChecks(fetched)
         polling == startTargetUpdateChecks(checking)
     IN  /\ monitor' = [polling.monitor EXCEPT !.isRunning = TRUE, !.pc = "running"]
         /\ timers' = polling.timers
  /\ request' = [kind |-> "started"]
  /\ UNCHANGED <<now, agents, storeVars, log, registryVars, targetVars>>

\* A per-target interval fires and calls check().
TickCheck ==
  /\ posts + monitor.checks[1] + monitor.checks[2] + monitor.checks[3] < MaxAgentChecks
  /\ \E id \in DOMAIN timers :
       /\ timers[id].kind = "check"
       /\ monitor' = BeginCheck(monitor, timers[id].target)
       /\ request' = [kind |-> "tick", targetId |-> timers[id].target]
  /\ UNCHANGED <<now, agents, storeVars, response, log, registryVars, targetVars, timers>>

\* A check() in progress ends: the probe has answered and submitResult
\* posts the result.
CheckDone ==
  \E t \in TargetIds, ok \in BOOLEAN :
    /\ monitor.checks[t] > 0
    /\ PostResults(monitor.agentId, Result(t, now, ok, IF ok THEN 50 ELSE Null))
    /\ monitor' = [monitor EXCEPT !.checks[t] = @ - 1]
    /\ request' = [kind |-> "check", targetId |-> t]
    /\ agentsFile' = saveAgentsToFile(agents')
    /\ UNCHANGED <<log, lastAgentId, targetVars, timers>>

\* The heartbeat interval fires.
TickHeartbeat ==
  /\ \E id \in DOMAIN timers : timers[id].kind = "heartbeat"
  /\ PostHeartbeat(apiKey, monitor.agentId)
  /\ request' = [kind |-> "heartbeat", key |-> apiKey, agentId |-> monitor.agentId]
  /\ UNCHANGED <<now, storeVars, log, lastAgentId, targetVars, monitorVars>>

\* The update poller fires: check-updates is answered, and on hasUpdates
\* the per-target intervals are stopped and the request of fetchTargets is
\* sent.
TickPoll ==
  /\ \E id \in DOMAIN timers : timers[id].kind = "poll"
  /\ monitor.isRunning
  /\ monitor.poll = "idle"
  /\ GetCheckUpdates([lastChecked |-> monitor.lastTargetsUpdate])
  /\ IF response'.hasUpdates
     THEN LET stopped == stopTargetChecks(AgentState) IN
            /\ monitor' = [stopped.monitor EXCEPT !.poll = "fetching"]
            /\ timers' = stopped.timers
     ELSE UNCHANGED monitorVars
  /\ request' = [kind |-> "poll", query |-> [lastChecked |-> monitor.lastTargetsUpdate]]
  /\ UNCHANGED <<now, agents, storeVars, log, registryVars, targetVars>>

\* The answer of GET /api/targets arrives in the poller: fetchTargets
\* completes and startTargetChecks runs.
PollFetched ==
  /\ monitor.poll = "fetching"
  /\ GetTargets(monitor.agentId)
  /\ LET fetched == fetchTargets(AgentState, response', now)
         checking == startTargetChecks(fetched)
     IN  /\ monitor' = [checking.monitor EXCEPT !.poll = "idle"]
         /\ timers' = checking.timers
  /\ request' = [kind |-> "updated"]
  /\ UNCHANGED <<now, agents, storeVars, log, registryVars, targetVars>>

\* stop()
Stop ==
  /\ monitor.pc = "running"
  /\ LET out == stop(AgentState) IN
       monitor' = out.monitor /\ timers' = out.timers
  /\ request' = [kind |-> "stop"]
  /\ UNCHANGED <<now, agents, storeVars, response, log, registryVars, targetVars>>

\* targets.json is rewritten with targets 1 and 3 and the coordinator
\* reloads it.
ReplaceTargets ==
  /\ targetsFile # saveTargetsToFile(<<HttpTarget(1, "a"), HttpTarget(3, "c")>>)
  /\ targetsFile' = saveTargetsToFile(<<HttpTarget(1, "a"), HttpTarget(3, "c")>>)
  /\ LET out == loadTargetsFromFile(targetsFile', targets, lastTargetId, lastUpdated, now) IN
       /\ targets' = out.targets
       /\ lastTargetId' = out.lastTargetId
       /\ lastUpdated' = out.lastUpdated
  /\ request' = [kind |-> "change"]
  /\ UNCHANGED <<now, agents, storeVars, response, log, registryVars, watcher, monitorVars>>

NextAgent ==
  \/ StartRegister
  \/ StartFetched
  \/ TickCheck
  \/ CheckDone
  \/ TickHeartbeat
  \/ TickPoll
  \/ PollFetched
  \/ Stop
  \/ ReplaceTargets

SpecAgent == InitAgent /\ [][NextAgent]_vars

\* ------------------------------------------------------------------------
\* SpecBuckets: one agent reporting response times in two half hours
\* ------------------------------------------------------------------------
StampsBuckets == {1000, ThirtyMinutes + 1000}

\* A response time is the difference of two readings of the agent's
\* clock; 0 and negative differences are sent as they are.
ResponseTimes == {50, 0, 0 - 5}

SubmitBuckets ==
  /\ posts < MaxBucketResults
  /\ SubmitFrom({"agent-1"}, {1}, StampsBuckets, ResponseTimes, TRUE)
  /\ UNCHANGED <<log, ext>>

RestartBuckets == Restart /\ request' = [kind |-> "restart"] /\ UNCHANGED <<log, ext>>

NextBuckets == SubmitBuckets \/ RestartBuckets

SpecBuckets == Init /\ [][NextBuckets]_vars

\* ------------------------------------------------------------------------
\* SpecPresence: agents coming and going under the 30 s liveness sweep
\* ------------------------------------------------------------------------
OneMinute == 60 * 1000

RegisterPresence ==
  /\ \E name \in {"eu-1", "us-1"} :
       /\ PostRegister(apiKey, [text |-> name, padded |-> FALSE],
                       [text |-> "lab", padded |-> FALSE], "unset")
       /\ request' = [kind |-> "register", name |-> name]
  /\ UNCHANGED <<now, results, targetStatus, file, cache, posts, log, targetVars,
                 monitorVars>>

HeartbeatPresence ==
  /\ \E agentId \in {"agent-1", "agent-2"} :
       /\ PostHeartbeat(apiKey, agentId)
       /\ request' = [kind |-> "heartbeat", agentId |-> agentId]
  /\ UNCHANGED <<now, results, targetStatus, file, cache, posts, log, lastAgentId,
                 targetVars, monitorVars>>

SubmitPresence ==
  /\ posts < MaxPresenceResults
  /\ SubmitFrom({"agent-1"}, {1}, {1000}, {50}, TRUE)
  /\ agentsFile' = IF agents' # agents THEN saveAgentsToFile(agents') ELSE agentsFile
  /\ UNCHANGED <<log, lastAgentId, targetVars, monitorVars>>

AdvancePresence ==
  /\ now < StartClock + MaxPresenceTicks * OneMinute
  /\ Advance(OneMinute)
  /\ request' = [kind |-> "tick"]
  /\ UNCHANGED <<log, ext>>

NextPresence ==
  \/ RegisterPresence
  \/ HeartbeatPresence
  \/ SubmitPresence
  \/ SweepOffline
  \/ RestartCoordinator
  \/ AdvancePresence

SpecPresence == InitRegistry /\ [][NextPresence]_vars

\* setInterval keeps calling checkOfflineAgents for as long as the
\* coordinator runs.
SpecPresenceLive == SpecPresence /\ WF_vars(SweepOffline)

\* ------------------------------------------------------------------------
\* SpecRetry: one agent against a coordinator that may be unreachable or
\* refuse a request
\* ------------------------------------------------------------------------
\* monitor carries one more field here: calls, the register, fetchTargets
\* and submitResult calls in progress, each with the value of its local
\* retries, the number of requests it has sent (attempts) and, for
\* submitResult, the result it posts; dropped counts the results check()
\* has given up.
maxRetries == 3

\* What a request sent with fetch() comes to: an answer with response.ok,
\* an answer without it, or an exception (connection refused, timeout).
Outcomes == {"ok", "refused", "throws"}

NewCall(op, result) == [op |-> op, result |-> result, retries |-> 0, attempts |-> 0]

RemoveAt(calls, i) == SubSeq(calls, 1, i - 1) \o SubSeq(calls, i + 1, Len(calls))

\* The catch block of a retry loop giving up one failure later.
RetryStepOneMore(call) ==
  LET retries == call.retries + 1 IN
    [call |-> [call EXCEPT !.retries = retries], thrown |-> retries > maxRetries]

\* The catch block of the retry loops of retryFetch, fetchTargets and
\* submitResult: retries++, then the error is thrown when retries has
\* reached maxRetries, and the loop goes round again otherwise.
RetryStep(call) ==
  LET retries == call.retries + 1 IN
    [call |-> [call EXCEPT !.retries = retries], thrown |-> retries >= maxRetries]

\* start() has thrown: main.ts logs the error and calls process.exit(1).
exitProcess(m) == [m EXCEPT !.pc = "failed", !.isRunning = FALSE, !.calls = <<>>]

Attempt(i, call, outcome, ended) ==
  [kind |-> "attempt", index |-> i, op |-> call.op, outcome |-> outcome,
   attempts |-> call.attempts, ended |-> ended]

InitRetry ==
  /\ now = StartClock
  /\ agents = EmptyMap
  /\ results = EmptyMap
  /\ targetStatus = EmptyMap
  /\ file = EmptyMap
  /\ cache = EmptyMap
  /\ request = [kind |-> "none"]
  /\ response = [kind |-> "none"]
  /\ posts = 0
  /\ log = <<>>
  /\ lastAgentId = 0
  /\ agentsFile = EmptyMap
  /\ targets = <<HttpTarget(1, "a")>>
  /\ lastUpdated = StartClock
  /\ lastTargetId = 1
  /\ targetsFile = saveTargetsToFile(targets)
  /\ watcher = [active |-> TRUE, pending |-> FALSE]
  /\ monitor = NewMonitor @@ [calls |-> <<>>, dropped |-> 0]
  /\ timers = EmptyMap

\* start() up to the first request of register().
StartRetry ==
  /\ monitor.pc = "new"
  /\ monitor' = [monitor EXCEPT !.pc = "registering", !.starts = @ + 1,
                                !.calls = Append(@, NewCall("register", Null))]
  /\ request' = [kind |-> "start"]
  /\ UNCHANGED <<now, agents, storeVars, response, log, registryVars, targetVars, timers>>

\* One request of register() through retryFetch.  An answer that is not ok
\* makes register() throw at once; an exception is retried.
RegisterAttempt ==
  /\ \E i \in 1..Len(monitor.calls), outcome \in Outcomes :
       LET call == [monitor.calls[i] EXCEPT !.attempts = @ + 1] IN
         /\ call.op = "register"
         /\ IF outcome = "ok"
            THEN /\ PostRegister(apiKey, [text |-> "eu-1", padded |-> FALSE],
                                 [text |-> "lab", padded |-> FALSE], "unset")
                 /\ LET registered ==
                          [monitor EXCEPT !.agentId = response'.agentId,
                                          !.pc = "fetching",
                                          !.calls = [@ EXCEPT ![i] =
                                                       NewCall("fetchTargets", Null)]]
                        out == startHeartbeat([monitor |-> registered, timers |-> timers])
                    IN  monitor' = out.monitor /\ timers' = out.timers
                 /\ request' = Attempt(i, call, outcome, "ok")
            ELSE LET step == IF outcome = "throws" THEN RetryStep(call)
                             ELSE [call |-> call, thrown |-> TRUE]
                 IN  /\ IF step.thrown
                        THEN monitor' = exitProcess(monitor) /\ timers' = EmptyMap
                        ELSE /\ monitor' = [monitor EXCEPT !.calls[i] = step.call]
                             /\ UNCHANGED timers
                     /\ request' = Attempt(i, call, outcome,
                                           IF step.thrown THEN "failed" ELSE "retry")
                     /\ UNCHANGED <<agents, response, registryVars>>
  /\ UNCHANGED <<now, storeVars, log, targetVars>>

\* One request of fetchTargets() in start().  Every failure, an answer
\* without a targets array included, is caught by the loop; start() goes on
\* to its end after the answer.
FetchAttempt ==
  /\ \E i \in 1..Len(monitor.calls), outcome \in Outcomes :
       LET call == [monitor.calls[i] EXCEPT !.attempts = @ + 1] IN
         /\ call.op = "fetchTargets"
         /\ IF outcome = "ok"
            THEN GetTargets(monitor.agentId)
            ELSE UNCHANGED response
         /\ IF outcome = "ok" /\ "targets" \in DOMAIN response'
            THEN /\ LET fetched == fetchTargets(AgentState, response', now)
                        checking == startTargetChecks(fetched)
                        polling == startTargetUpdateChecks(checking)
                    IN  /\ monitor' = [polling.monitor EXCEPT
                                         !.isRunning = TRUE, !.pc = "running",
                                         !.calls = RemoveAt(@, i)]
                        /\ timers' = polling.timers
                 /\ request' = Attempt(i, call, outcome, "ok")
            ELSE LET step == RetryStep(call) IN
                   /\ IF step.thrown
                      THEN monitor' = exitProcess(monitor) /\ timers' = EmptyMap
                      ELSE /\ monitor' = [monitor EXCEPT !.calls[i] = step.call]
                           /\ UNCHANGED timers
                   /\ request' = Attempt(i, call, outcome,
                                         IF step.thrown THEN "failed" ELSE "retry")
  /\ UNCHANGED <<now, agents, storeVars, log, registryVars, targetVars>>

\* A per-target interval fires: check() probes the target and calls
\* submitResult.
TickRetry ==
  /\ monitor.isRunning
  /\ posts + monitor.dropped + Len(monitor.calls) < MaxRetryChecks
  /\ \E id \in DOMAIN timers, ok \in BOOLEAN :
       /\ timers[id].kind = "check"
       /\ monitor' = [BeginCheck(monitor, timers[id].target) EXCEPT
                        !.calls = Append(@, NewCall("submitResult",
                                     Result(timers[id].target, now, ok,
                                            IF ok THEN 50 ELSE Null)))]
       /\ request' = [kind |-> "tick", targetId |-> timers[id].target]
  /\ UNCHANGED <<now, agents, storeVars, response, log, registryVars, targetVars, timers>>

\* One request of submitResult().  When the loop gives up, check() catches
\* the error and logs it.
SubmitAttemptStep ==
  /\ \E i \in 1..Len(monitor.calls), outcome \in Outcomes :
       LET call == [monitor.calls[i] EXCEPT !.attempts = @ + 1]
           ended == [monitor EXCEPT !.calls = RemoveAt(@, i),
                                    !.checks[call.result.targetId] = @ - 1]
       IN
         /\ call.op = "submitResult"
         /\ IF outcome = "ok"
            THEN /\ PostResults(monitor.agentId, call.result)
                 /\ agentsFile' = saveAgentsToFile(agents')
                 /\ monitor' = ended
                 /\ request' = Attempt(i, call, outcome, "ok")
            ELSE LET step == RetryStep(call) IN
                   /\ monitor' = IF step.thrown
                                 THEN [ended EXCEPT !.dropped = @ + 1]
                                 ELSE [monitor EXCEPT !.calls[i] = step.call]
                   /\ request' = Attempt(i, call, outcome,
                                         IF step.thrown THEN "failed" ELSE "retry")
                   /\ UNCHANGED <<now, agents, storeVars, response, agentsFile>>
  /\ UNCHANGED <<lastAgentId, targetVars, timers>>

SubmitAttempt == SubmitAttemptStep /\ UNCHANGED log

NextRetry ==
  \/ StartRetry
  \/ RegisterAttempt
  \/ FetchAttempt
  \/ TickRetry
  \/ SubmitAttempt

SpecRetry == InitRetry /\ [][NextRetry]_vars

\* ------------------------------------------------------------------------
\* SpecShutdown: the writes of results.json in progress, and the signal
\* ------------------------------------------------------------------------
\* saveResultsToFile is an async function nobody awaits on these paths: a
\* call first awaits ensureDir, then builds the blob from the store as it is
\* at that moment, then awaits writeJson.  log holds the calls in progress;
\* request.kind = "exit" once the process has exited.
Running == request.kind # "exit"

NewSave == [stage |-> "ensureDir"]

\* A call of saveResultsToFile() up to its first await.
startSave(saves) == Append(saves, NewSave)

\* POST /api/results up to its answer: storeResults calls addResult, which
\* ends by calling saveResultsToFile(), and then saveData().
SubmitShutdown ==
  /\ Running
  /\ posts < MaxShutdownResults
  /\ \E ts \in {1000, 2000}, ok \in BOOLEAN :
       LET r == Result(1, ts, ok, IF ok THEN 50 ELSE Null)
           out == storeResults(results, targetStatus, "agent-1", r, now)
       IN  /\ agents' = updateAgentLastSeen(agents, "agent-1", now)
           /\ results' = out.results
           /\ targetStatus' = out.targetStatus
           /\ cache' = Drop(cache, DeletedKeys)
           /\ posts' = posts + 1
           /\ response' = [kind |-> "results", success |-> TRUE, processed |-> 1]
           /\ log' = startSave(IF ValidResult(r) THEN startSave(log) ELSE log)
           /\ request' = [kind |-> "results", agentId |-> "agent-1", result |-> r]
  /\ UNCHANGED <<now, file, ext>>

\* ensureDir has answered: the blob is built from the store.
SaveSerialises ==
  /\ Running
  /\ \E i \in 1..Len(log) :
       /\ log[i].stage = "ensureDir"
       /\ log' = [log EXCEPT ![i] = [stage |-> "writeJson",
                                     data |-> saveResultsToFile(results)]]
  /\ request' = [kind |-> "serialised"]
  /\ UNCHANGED <<now, agents, results, targetStatus, file, cache, response, posts, ext>>

\* writeJson has answered: the blob is on disk.
SaveWritten ==
  /\ Running
  /\ \E i \in 1..Len(log) :
       /\ log[i].stage = "writeJson"
       /\ file' = log[i].data
       /\ log' = RemoveAt(log, i)
  /\ request' = [kind |-> "written"]
  /\ UNCHANGED <<now, agents, results, targetStatus, cache, response, posts, ext>>

\* SIGINT or SIGTERM: handleShutdown calls saveData() and then
\* process.exit(0).  A write that writeJson had begun may or may not have
\* reached the disk.
Shutdown ==
  /\ Running
  /\ \E written \in {file} \cup {log[i].data : i \in {j \in 1..Len(log) :
                                                      log[j].stage = "writeJson"}} :
       file' = written
  /\ log' = <<>>
  /\ request' = [kind |-> "exit", saves |-> startSave(log)]
  /\ UNCHANGED <<now, agents, results, targetStatus, cache, response, posts, ext>>

NextShutdown ==
  \/ SubmitShutdown
  \/ SaveSerialises
  \/ SaveWritten
  \/ Shutdown

SpecShutdown == Init /\ [][NextShutdown]_vars

\* ------------------------------------------------------------------------
\* SpecMint: registrations, removals and restarts; log holds the ids
\* generateAgentId has returned, in order
\* ------------------------------------------------------------------------
RegisterMint ==
  /\ Len(log) < MaxMinted
  /\ \E name \in {"eu-1", "us-1", "ap-1"} :
       /\ PostRegister(apiKey, [text |-> name, padded |-> FALSE],
                       [text |-> "lab", padded |-> FALSE], "unset")
       /\ request' = [kind |-> "register", name |-> name]
  /\ log' = IF response'.agentId \in DOMAIN agents THEN log
            ELSE Append(log, response'.agentId)
  /\ UNCHANGED <<now, results, targetStatus, file, cache, posts, targetVars, monitorVars>>

RemoveAgent ==
  /\ \E agentId \in DOMAIN agents :
       /\ agents' = removeAgent(agents, agentId)
       /\ agentsFile' = saveAgentsToFile(agents')
       /\ request' = [kind |-> "remove", agentId |-> agentId]
  /\ UNCHANGED <<now, results, targetStatus, file, cache, response, posts, log,
                 lastAgentId, targetVars, monitorVars>>

NextMint ==
  \/ RegisterMint
  \/ RemoveAgent
  \/ RestartCoordinator

SpecMint == InitRegistry /\ [][NextMint]_vars

\* ------------------------------------------------------------------------
\* SpecOrder: the agent of SpecRetry with a clock; log holds the results
\* POST /api/results has accepted, in arrival order
\* ------------------------------------------------------------------------
SubmitOrder ==
  /\ SubmitAttemptStep
  /\ log' = IF request'.ended = "ok"
            THEN Append(log, monitor.calls[request'.index].result)
            ELSE log

\* The time between two ticks of a target's interval.
TenSeconds == 10 * 1000

AdvanceOrder ==
  /\ now < StartClock + MaxOrderTicks * TenSeconds
  /\ Advance(TenSeconds)
  /\ request' = [kind |-> "tick"]
  /\ UNCHANGED <<log, ext>>

NextOrder ==
  \/ StartRetry
  \/ RegisterAttempt
  \/ FetchAttempt
  \/ TickRetry
  \/ SubmitOrder
  \/ AdvanceOrder

SpecOrder == InitRetry /\ [][NextOrder]_vars

\* ------------------------------------------------------------------------
\* SpecStoredQuery: GET /api/results between result submissions
\* ------------------------------------------------------------------------
ResultsKey(agentId, targetId, date) ==
  "results-data-" \o ParamString(agentId, "all") \o "-" \o ParamString(targetId, "all")
    \o "-" \o ParamString(date, "all")

\* getResults() without parameters: a new object per agent and per target,
\* whose leaves are the daily records of the store themselves.  The value
\* is the set of the keys; the records are read when the answer is written.
getResults(res) == {k \in DOMAIN res : k[1] # ""}

\* GET /api/results
GetResults ==
  LET got == getCachedData(cache, ResultsKey(Null, Null, Null), CACHE_TTL,
                           getResults(results), now, posts)
  IN  /\ cache' = got.cache
      /\ response' = [kind |-> "stored-results", success |-> TRUE,
                      results |-> [k \in got.entry.data |-> results[k]],
                      computedAt |-> got.entry.computedAt]
      /\ UNCHANGED <<now, agents, results, targetStatus, file, posts>>

SubmitStoredQuery ==
  /\ posts < MaxStoredQueryResults
  /\ SubmitFrom({"agent-1"}, {1}, {1000, DayMs + 1000}, {50}, TRUE)
  /\ UNCHANGED <<log, ext>>

QueryResults ==
  /\ GetResults
  /\ request' = [kind |-> "query"]
  /\ UNCHANGED <<log, ext>>

AdvanceStoredQuery ==
  /\ now < StartClock + MaxStoredQueryTicks * TickMs
  /\ Advance(TickMs)
  /\ request' = [kind |-> "tick"]
  /\ UNCHANGED <<log, ext>>

NextStoredQuery ==
  \/ SubmitStoredQuery
  \/ QueryResults
  \/ AdvanceStoredQuery

SpecStoredQuery == Init /\ [][NextStoredQuery]_vars

\* ------------------------------------------------------------------------
\* SpecFrame: two agents, two targets and two days
\* ------------------------------------------------------------------------
SubmitFrame ==
  /\ posts < MaxFrameResults
  /\ SubmitFrom({"agent-1", "agent-2"}, {1, 2}, {1000, DayMs + 1000}, {50}, TRUE)
  /\ UNCHANGED <<log, ext>>

SpecFrame == Init /\ [][SubmitFrame]_vars

\* ------------------------------------------------------------------------
\* SpecDelivery: the agent of SpecRetry against a coordinator whose
\* registry may lose the agent
\* ------------------------------------------------------------------------
\* The handlers answer their refusals ({ success: false, error }) as
\* ordinary return values, that is with status 200: to fetch() they are
\* answers with response.ok, the outcome "ok" of SubmitAttemptStep.
NextDelivery ==
  \/ StartRetry
  \/ RegisterAttempt
  \/ FetchAttempt
  \/ TickRetry
  \/ SubmitAttempt
  \/ RemoveAgent

SpecDelivery == InitRetry /\ [][NextDelivery]_vars

\* ------------------------------------------------------------------------
\* SpecConsensus: three agents reporting on one target, with resets and
\* restarts
\* ------------------------------------------------------------------------
SubmitConsensus ==
  /\ posts < MaxConsensusResults
  /\ SubmitFrom(RegisteredAgents, {1}, {1000}, {50}, TRUE)
  /\ UNCHANGED <<log, ext>>

ResetConsensus ==
  /\ ResetUptimeData
  /\ request' = [kind |-> "reset"]
  /\ UNCHANGED <<log, ext>>

NextConsensus ==
  \/ SubmitConsensus
  \/ ResetConsensus
  \/ RestartPair

SpecConsensus == Init /\ [][NextConsensus]_vars

\* ------------------------------------------------------------------------
\* SpecRollover: one agent that goes on submitting while the days pass
\* ------------------------------------------------------------------------
\* The agent stamps a result with its clock.  It may submit for ever: posts
\* stops counting at MaxRolloverPosts, the successes carry no response time
\* to fold, and a failure is only submitted while the day's record holds
\* fewer than MaxRolloverIncidents incidents.
RolloverDays == (StartClock \div DayMs)..(StartClock \div DayMs + MaxRolloverDays)

RolloverTargets == {1, 2}

RolloverKeys == {<<"agent-1", t, d>> : t \in RolloverTargets, d \in RolloverDays}

SubmitRolloverFor(t) ==
  /\ \E ok \in BOOLEAN :
       LET r == Result(t, now, ok, IF ok THEN 0 ELSE Null)
           key == <<"agent-1", t, getDateString(now, now)>>
           out == storeResults(results, targetStatus, "agent-1", r, now)
       IN  /\ IF ok \/ key \notin DOMAIN results THEN TRUE
              ELSE Len(results[key].incidents) < MaxRolloverIncidents
           /\ agents' = updateAgentLastSeen(agents, "agent-1", now)
           /\ results' = out.results
           /\ targetStatus' = out.targetStatus
           /\ file' = saveResultsToFile(out.results)
           /\ cache' = Drop(cache, DeletedKeys)
           /\ posts' = IF posts < MaxRolloverPosts THEN posts + 1 ELSE posts
           /\ response' = [kind |-> "results", success |-> TRUE, processed |-> 1]
           /\ request' = [kind |-> "results", agentId |-> "agent-1", result |-> r]
  /\ UNCHANGED <<now, log, ext>>

SubmitRollover == \E t \in RolloverTargets : SubmitRolloverFor(t)

AdvanceRollover ==
  /\ now < StartClock + MaxRolloverDays * DayMs
  /\ Advance(DayMs)
  /\ request' = [kind |-> "tick"]
  /\ UNCHANGED <<log, ext>>

NextRollover ==
  \/ SubmitRollover
  \/ AdvanceRollover

SpecRollover == Init /\ [][NextRollover]_vars

\* The agent's interval goes on firing, and time passes.
SpecRolloverLive ==
  /\ SpecRollover
  /\ \A t \in RolloverTargets : WF_vars(SubmitRolloverFor(t))
  /\ WF_vars(AdvanceRollover)

\* ------------------------------------------------------------------------
\* SpecLoad: the load of results.json the constructor starts and leaves
\* ------------------------------------------------------------------------
\* The constructor calls loadResultsFromFile without awaiting it, and the
\* server listens at once.  The load runs in three steps, one per await:
\* pathExists, readJson, and the synchronous rest that installs a new map.
\* log holds the load under way: its stage, the data readJson returned, the
\* keys of the results accepted since the process started while the load
\* had not completed, and the number of starts so far.  A file that was
\* never written does not exist.
NewLoad(starts) ==
  [stage |-> "pathExists", data |-> EmptyMap, accepted |-> {}, starts |-> starts]

LoadStage == log[1].stage

InitLoad ==
  /\ now = StartClock
  /\ agents = InitAgents
  /\ results = EmptyMap
  /\ targetStatus = EmptyMap
  /\ file = EmptyMap
  /\ cache = EmptyMap
  /\ request = [kind |-> "none"]
  /\ response = [kind |-> "none"]
  /\ posts = 0
  /\ log = <<NewLoad(0)>>
  /\ lastAgentId = updateLastAgentId(InitAgents)
  /\ agentsFile = saveAgentsToFile(InitAgents)
  /\ targets = <<>>
  /\ lastUpdated = StartClock
  /\ lastTargetId = 0
  /\ targetsFile = [kind |-> "missing"]
  /\ watcher = [active |-> TRUE, pending |-> FALSE]
  /\ monitor = NewMonitor
  /\ timers = EmptyMap

\* await pathExists(this.dbPath)
LoadPathExists ==
  /\ LoadStage = "pathExists"
  /\ log' = <<[log[1] EXCEPT !.stage = IF file = EmptyMap THEN "done" ELSE "readJson"]>>
  /\ request' = [kind |-> "load"]
  /\ UNCHANGED <<now, agents, results, targetStatus, file, cache, response, posts, ext>>

\* await readJson(this.dbPath)
LoadReadJson ==
  /\ LoadStage = "readJson"
  /\ log' = <<[log[1] EXCEPT !.stage = "parsed", !.data = file]>>
  /\ request' = [kind |-> "load"]
  /\ UNCHANGED <<now, agents, results, targetStatus, file, cache, response, posts, ext>>

\* The rest of loadResultsFromFile: this.results = new Map(), filled from
\* the data, the status of every down record reported on top of the
\* statuses in memory.
LoadInstall ==
  /\ LoadStage = "parsed"
  /\ LET out == loadResultsFromFile(log[1].data, targetStatus, now) IN
       /\ results' = out.results
       /\ targetStatus' = out.targetStatus
  /\ log' = <<[log[1] EXCEPT !.stage = "done", !.data = EmptyMap]>>
  /\ request' = [kind |-> "load"]
  /\ UNCHANGED <<now, agents, file, cache, response, posts, ext>>

LoadStamps == {1000, 2000}

SubmitLoad ==
  /\ posts < MaxLoadResults
  /\ SubmitFrom({"agent-1", "agent-2"}, Targets, LoadStamps, {50}, TRUE)
  /\ log' = IF LoadStage = "done" THEN log
            ELSE <<[log[1] EXCEPT !.accepted = @ \cup
                      {<<request'.agentId, request'.result.targetId,
                         getDateString(request'.result.timestamp, now)>>}]>>
  /\ UNCHANGED ext

\* The process is started again: empty maps, and a new load.
StartCoordinator ==
  /\ LoadStage = "done"
  /\ log[1].starts < MaxLoadStarts
  /\ results' = EmptyMap
  /\ targetStatus' = EmptyMap
  /\ agents' = [a \in DOMAIN agents |-> [agents[a] EXCEPT !.status = "offline"]]
  /\ cache' = EmptyMap
  /\ log' = <<NewLoad(log[1].starts + 1)>>
  /\ request' = [kind |-> "start"]
  /\ response' = [kind |-> "none"]
  /\ UNCHANGED <<now, file, posts, ext>>

NextLoad ==
  \/ LoadPathExists
  \/ LoadReadJson
  \/ LoadInstall
  \/ SubmitLoad
  \/ StartCoordinator

SpecLoad == InitLoad /\ [][NextLoad]_vars

\* ------------------------------------------------------------------------
\* Properties
\* ------------------------------------------------------------------------
ReportCount(t) == Cardinality(DOMAIN targetStatus[t].agentsReporting)
DownCount(t) ==
  Cardinality({a \in DOMAIN targetStatus[t].agentsReporting :
                 targetStatus[t].agentsReporting[a]})

\* C1: for every target, the stored isDown is the consensus of its
\* agentsReporting map: with one reporting agent it is that agent's report,
\* with two or more it is true iff at least two of them report down.
ConsensusMatchesReports ==
  \A t \in DOMAIN targetStatus :
    /\ ReportCount(t) = 1 => (targetStatus[t].isDown <=> DownCount(t) = 1)
    /\ ReportCount(t) >= 2 => (targetStatus[t].isDown <=> DownCount(t) >= 2)

\* One target has two reporters of which one is down (consensus up) while
\* another target has a single reporter that is down (consensus down).
ConsensusWitness ==
  /\ \E t \in DOMAIN targetStatus :
       ReportCount(t) = 2 /\ DownCount(t) = 1 /\ ~targetStatus[t].isDown
  /\ \E t \in DOMAIN targetStatus :
       ReportCount(t) = 1 /\ DownCount(t) = 1 /\ targetStatus[t].isDown

OpenIncidents(rec) == {i \in 1..Len(rec.incidents) : rec.incidents[i].endTime = Null}

\* C2: every daily record has at most one incident with endTime = null, that
\* incident is the last of the list, and isDown holds exactly when it exists.
OneOpenIncidentLast ==
  \A k \in DOMAIN results :
    LET rec == results[k] IN
      /\ Cardinality(OpenIncidents(rec)) <= 1
      /\ OpenIncidents(rec) \subseteq {Len(rec.incidents)}
      /\ rec.isDown <=> OpenIncidents(rec) # {}

\* A record whose first incident is closed and whose second is open.
OpenIncidentWitness ==
  \E k \in DOMAIN results :
    /\ Len(results[k].incidents) = 2
    /\ results[k].incidents[1].endTime # Null
    /\ results[k].incidents[2].endTime = Null
    /\ results[k].isDown

RECURSIVE ClosedDowntime(_)
ClosedDowntime(incidents) ==
  IF incidents = <<>> THEN 0
  ELSE (IF Head(incidents).endTime = Null THEN 0
        ELSE Head(incidents).endTime - Head(incidents).startTime)
       + ClosedDowntime(Tail(incidents))

\* C3: whatever the order of the timestamps, every closed incident has
\* endTime >= startTime, and downtimeMs is non-negative and at least the sum
\* of the closed incidents' durations.
ClosedIncidentsWellFormed ==
  \A k \in DOMAIN results :
    LET rec == results[k] IN
      /\ \A i \in 1..Len(rec.incidents) :
           rec.incidents[i].endTime # Null =>
             rec.incidents[i].endTime >= rec.incidents[i].startTime
      /\ rec.downtimeMs >= 0
      /\ rec.downtimeMs >= ClosedDowntime(rec.incidents)

\* ------------------------------------------------------------------------
\* Steps of POST /api/results as seen from the recorded request
\* ------------------------------------------------------------------------
PostStep == posts' = posts + 1 /\ request'.kind = "results"

RequestKey(req) ==
  <<req.agentId, req.result.targetId, getDateString(req.result.timestamp, now)>>

OthersUnchanged(key) ==
  /\ DOMAIN results' = DOMAIN results \cup {key}
  /\ \A k \in DOMAIN results : k # key => results'[k] = results[k]

RecordBefore(key) == IF key \in DOMAIN results THEN results[key] ELSE NewDailyRecord

ConsensusUp(t) == t \notin DOMAIN targetStatus \/ ~targetStatus[t].isDown

OtherAgent(a) == CHOOSE b \in {"agent-1", "agent-2"} : b # a

\* B's failure arrives while the consensus is up and the other agent A
\* already reports down, and the consensus becomes down.
FlipByFailure ==
  /\ PostStep
  /\ ~request'.result.success
  /\ ConsensusUp(request'.result.targetId)
  /\ request'.result.targetId \in DOMAIN targetStatus
  /\ LET rep == targetStatus[request'.result.targetId].agentsReporting
         a == OtherAgent(request'.agentId) IN
       /\ DOMAIN rep = {"agent-1", "agent-2"}
       /\ rep[a]
  /\ targetStatus'[request'.result.targetId].isDown

OpenedAt(rec, timestamp) ==
  /\ rec.isDown
  /\ rec.incidents # <<>>
  /\ rec.incidents[Len(rec.incidents)] = [startTime |-> timestamp, endTime |-> Null]

\* C4 as stated: when B's failure flips the consensus from up to down, an
\* incident with startTime = B's timestamp is open on both A's and B's
\* records of that day after the step.
FlipOpensOnBothRecords ==
  [][FlipByFailure =>
       LET ts == request'.result.timestamp
           t == request'.result.targetId
           day == getDateString(ts, now)
           keyA == <<OtherAgent(request'.agentId), t, day>>
           keyB == <<request'.agentId, t, day>> IN
         /\ keyB \in DOMAIN results' /\ OpenedAt(results'[keyB], ts)
         /\ keyA \in DOMAIN results' /\ OpenedAt(results'[keyA], ts)]_vars

\* C4 (amended): when B's failure flips the consensus from up to down, only
\* B's record of the result's day changes: if it was not down an incident
\* [timestamp, null] is appended to it and it becomes down, if it was already
\* down it is left as it is; every other record, A's included, is unchanged.
FlipOpensOnSubmitterOnly ==
  [][FlipByFailure =>
       LET ts == request'.result.timestamp
           key == RequestKey(request')
           old == RecordBefore(key) IN
         /\ OthersUnchanged(key)
         /\ results'[key].isDown
         /\ results'[key].downtimeMs = old.downtimeMs
         /\ results'[key].incidents =
              IF old.isDown THEN old.incidents
              ELSE Append(old.incidents, [startTime |-> ts, endTime |-> Null])]_vars

\* After B's failure both agents report down, B's record carries the incident
\* opened at B's timestamp and A's record of the same day has no incident.
FlipWitness ==
  /\ request.kind = "results"
  /\ ~request.result.success
  /\ 1 \in DOMAIN targetStatus
  /\ targetStatus[1].isDown
  /\ targetStatus[1].agentsReporting = [a \in {"agent-1", "agent-2"} |-> TRUE]
  /\ RequestKey(request) \in DOMAIN results
  /\ OpenedAt(results[RequestKey(request)], request.result.timestamp)
  /\ LET keyA == <<OtherAgent(request.agentId), 1,
                   getDateString(request.result.timestamp, now)>> IN
       keyA \in DOMAIN results /\ results[keyA].incidents = <<>>

ClosedAt(old, new, timestamp) ==
  LET n == Len(old.incidents) IN
    /\ ~new.isDown
    /\ new.incidents = [old.incidents EXCEPT ![n].endTime = timestamp]
    /\ new.downtimeMs = old.downtimeMs + (timestamp - old.incidents[n].startTime)

KeptOpen(old, new) ==
  /\ new.isDown
  /\ new.incidents = old.incidents
  /\ new.downtimeMs = old.downtimeMs

\* C5 as stated: with two agents, a result of an agent whose record has an
\* open incident closes that incident at the result's timestamp when it is a
\* success, never closes it when it is a failure, and leaves the other
\* agent's records alone.
OnlySuccessClosesIncident ==
  [][(PostStep /\ RecordBefore(RequestKey(request')).isDown) =>
       LET key == RequestKey(request')
           ts == request'.result.timestamp IN
         /\ OthersUnchanged(key)
         /\ request'.result.success => ClosedAt(results[key], results'[key], ts)
         /\ ~request'.result.success => KeptOpen(results[key], results'[key])]_vars

\* C5 (amended): with two agents, a result of an agent whose record has an
\* open incident changes that record only; the incident is closed at the
\* result's timestamp exactly when the consensus after the step is up, which
\* is the case for every success and also for a failure sent while the other
\* agent reports up; otherwise it stays open.
ConsensusUpClosesIncident ==
  [][(PostStep /\ RecordBefore(RequestKey(request')).isDown) =>
       LET key == RequestKey(request')
           ts == request'.result.timestamp
           down == targetStatus'[request'.result.targetId].isDown IN
         /\ OthersUnchanged(key)
         /\ request'.result.success => ~down
         /\ ~down => ClosedAt(results[key], results'[key], ts)
         /\ down => KeptOpen(results[key], results'[key])]_vars

\* Both agents opened an incident at 1000, one closed its own by a success
\* at 2000, and the failure of the other at 2000 has closed the other one.
FailureClosedWitness ==
  /\ posts = 4
  /\ request.kind = "results"
  /\ ~request.result.success
  /\ request.result.timestamp = 2000
  /\ \A a \in {"agent-1", "agent-2"} :
       /\ <<a, 1, 0>> \in DOMAIN results
       /\ results[<<a, 1, 0>>].incidents = <<[startTime |-> 1000, endTime |-> 2000]>>
       /\ results[<<a, 1, 0>>].downtimeMs = 1000
       /\ ~results[<<a, 1, 0>>].isDown
  /\ targetStatus[1].agentsReporting[request.agentId]
  /\ ~targetStatus[1].isDown

\* ------------------------------------------------------------------------
\* Runs of failures in the recorded sequence of processed results
\* ------------------------------------------------------------------------
RunStarts(l) ==
  {i \in 1..Len(l) : ~l[i].result.success /\ (i = 1 \/ l[i - 1].result.success)}

NextSuccess(l, i) == {j \in (i + 1)..Len(l) : l[j].result.success}

RunEnd(l, i) ==
  IF NextSuccess(l, i) = {} THEN Null
  ELSE l[CHOOSE j \in NextSuccess(l, i) : \A m \in NextSuccess(l, i) : j <= m].result.timestamp

KthRunStart(l, k) ==
  CHOOSE i \in RunStarts(l) : Cardinality({j \in RunStarts(l) : j <= i}) = k

FailureRuns(l) ==
  [k \in 1..Cardinality(RunStarts(l)) |->
     [startTime |-> l[KthRunStart(l, k)].result.timestamp,
      endTime |-> RunEnd(l, KthRunStart(l, k))]]

WithinOneDay(l) ==
  \A i, j \in 1..Len(l) :
    getDateString(l[i].result.timestamp, now) = getDateString(l[j].result.timestamp, now)

NonDecreasing(l) ==
  \A i, j \in 1..Len(l) : i <= j => l[i].result.timestamp <= l[j].result.timestamp

\* C6: when the single agent's processed results all fall on one day and
\* carry non-decreasing timestamps, the incidents of its record are exactly
\* the maximal runs of failures, each from the first failure of the run to
\* the next success, and downtimeMs is the sum of the closed runs' durations.
IncidentsAreFailureRuns ==
  (log # <<>> /\ WithinOneDay(log) /\ NonDecreasing(log)) =>
    LET key == <<log[1].agentId, log[1].result.targetId,
                 getDateString(log[1].result.timestamp, now)>> IN
      /\ key \in DOMAIN results
      /\ results[key].incidents = FailureRuns(log)
      /\ results[key].downtimeMs = ClosedDowntime(FailureRuns(log))
      /\ results[key].isDown <=> ~log[Len(log)].result.success

\* success, fail@1000, fail@2000, success@3000: one incident [1000, 3000]
\* and downtimeMs = 2000.
FailureRunWitness ==
  /\ Len(log) = 4
  /\ log[1].result.success /\ log[4].result.success
  /\ ~log[2].result.success /\ ~log[3].result.success
  /\ log[2].result.timestamp = 1000
  /\ log[3].result.timestamp = 2000
  /\ log[4].result.timestamp = 3000
  /\ results[<<"agent-1", 1, 0>>].incidents = <<[startTime |-> 1000, endTime |-> 3000]>>
  /\ results[<<"agent-1", 1, 0>>].downtimeMs = 2000

\* ------------------------------------------------------------------------
\* Uptime percentages
\* ------------------------------------------------------------------------
\* C7: when the single agent's record of a day of the look-back holds one
\* closed incident of 2000 ms, the fused downtime of that day is 2000 ms and
\* the day's uptime percentage is strictly below 100.
SingleAgentDowntimeCounted ==
  \A k \in DOMAIN results :
    (/\ k[3] \in LookbackDaysOf(now)
     /\ Len(results[k].incidents) = 1
     /\ results[k].incidents[1].endTime # Null
     /\ results[k].incidents[1].endTime - results[k].incidents[1].startTime = 2000
     /\ results[k].downtimeMs = 2000)
    => /\ DailyDowntimeMs(results, k[2], k[3]) = 2000
       /\ calculateUptimePercentage(results, k[2], TimeRange(1, now), now) < 10000

\* The time of a day during which at least minAgentsForDowntime distinct
\* agents have an incident covering the instant.
Covering(res, targetId, day, p, q) ==
  {id[1] : id \in {x \in IncidentIds(res, targetId, day) :
                     /\ ClippedStart(res, targetId, day, x) <= p
                     /\ q <= ClippedEnd(res, targetId, day, x)}}

Breakpoints(res, targetId, day) ==
  DOMAIN TimelinePoints(res, targetId, day) \cup {day * DayMs, (day + 1) * DayMs}

RECURSIVE OverlapFrom(_, _, _, _)
OverlapFrom(res, targetId, day, points) ==
  IF Cardinality(points) < 2 THEN 0
  ELSE LET p == CHOOSE x \in points : \A y \in points : x <= y
           rest == points \ {p}
           q == CHOOSE x \in rest : \A y \in rest : x <= y
       IN  (IF Cardinality(Covering(res, targetId, day, p, q)) >= minAgentsForDowntime
            THEN q - p ELSE 0)
           + OverlapFrom(res, targetId, day, rest)

OverlapMs(res, targetId, day) ==
  OverlapFrom(res, targetId, day, Breakpoints(res, targetId, day))

\* C8: the fused downtime of a day is exactly the time during which at
\* least two agents simultaneously have an incident covering the instant.
FusedDowntimeIsOverlap ==
  \A d \in LookbackDaysOf(now) :
    HasDataForDay(results, 1, d) =>
      DailyDowntimeMs(results, 1, d) = OverlapMs(results, 1, d)

AllIncidentsEndedBefore(res, limit) ==
  \A k \in DOMAIN res :
    \A i \in 1..Len(res[k].incidents) :
      /\ res[k].incidents[i].endTime # Null
      /\ res[k].incidents[i].startTime <= res[k].incidents[i].endTime
      /\ res[k].incidents[i].endTime < limit

\* C9: when every incident ended more than one day ago and the fused
\* downtime of the look-back is not zero, the day window shows 100 percent
\* and differs from the month window.
WindowsClipIncidents ==
  (/\ AllIncidentsEndedBefore(results, now - DayMs)
   /\ \E d \in LookbackDaysOf(now) :
        HasDataForDay(results, 1, d) /\ DailyDowntimeMs(results, 1, d) >= TenMinutes)
  => LET uptime == getUptimePercentages(results, 1, now) IN
       uptime.day = 10000 /\ uptime.day # uptime.month

\* ------------------------------------------------------------------------
\* Read cache
\* ------------------------------------------------------------------------
\* C10: a response of GET /api/latency, /api/uptime or /api/target-status
\* was computed after the last accepted POST /api/results.
ReadsRecomputeAfterSubmission ==
  response.kind \in {"latency", "uptime", "target-status"} =>
    response.computedAt = posts


ChangeCheckIsExact ==
  (request.kind = "check-updates" /\ "lastChecked" \in DOMAIN request.query) =>
    (response.hasUpdates <=> lastUpdated > request.query.lastChecked)

\* C18: a reload of a targets.json that is missing, unreadable or without
\* a targets array leaves targets and lastUpdated as they were; a reload
\* of a file with a targets array replaces targets by its valid entries
\* and advances lastUpdated; the watcher stays active either way.
FailedReloadKeepsTargets ==
  [][request'.kind = "change" =>
       /\ watcher'.active
       /\ IF HasTargetsArray(targetsFile)
          THEN /\ targets' = SelectSeq(targetsFile.targets, validTarget)
               /\ lastUpdated' > lastUpdated
          ELSE /\ targets' = targets
               /\ lastUpdated' = lastUpdated]_vars

\* A reload failed, and the reload of a later change of the file replaced
\* the set.
ReloadAfterFailureWitness ==
  /\ Len(log) = 2
  /\ ~log[1].loaded
  /\ log[2].loaded
  /\ request.kind = "change"
  /\ targets = <<HttpTarget(1, "a"), HttpTarget(3, "c")>>
  /\ lastUpdated = now
  /\ watcher.active

\* C19: no two targets of the in-memory target set share an id.
TargetIdsUnique ==
  \A i \in 1..Len(targets) : \A j \in 1..Len(targets) :
    i # j => targets[i].id # targets[j].id

\* ------------------------------------------------------------------------
\* Rejected requests
\* ------------------------------------------------------------------------
\* C16: a heartbeat or a result submission whose agent id is not in the
\* registry is answered "Unknown agent" and leaves the registry, the
\* daily records and the target statuses as they were.
UnknownAgentChangesNothing ==
  [][(\/ /\ request'.kind = "heartbeat"
         /\ request'.key = apiKey
         /\ request'.agentId # NoHeader
         /\ request'.agentId \notin DOMAIN agents
      \/ /\ request'.kind = "results"
         /\ request'.agentId \notin DOMAIN agents)
     => /\ ~response'.success
        /\ response'.error = "Unknown agent"
        /\ UNCHANGED <<agents, lastAgentId, agentsFile, results, targetStatus, file>>]_vars

\* A result of an unknown agent was turned away while the registry and
\* the store hold data.
UnknownAgentWitness ==
  /\ request.kind = "results"
  /\ request.agentId = UnknownAgentId
  /\ response.kind = "results"
  /\ ~response.success
  /\ response.error = "Unknown agent"
  /\ agents # EmptyMap
  /\ results # EmptyMap
  /\ targetStatus # EmptyMap

\* C17: a request to register, heartbeat, uptime reset or uptime check
\* whose x-api-key is absent or wrong is answered Unauthorized and leaves
\* the registry, the daily records and the target statuses as they were.
BadKeyChangesNothing ==
  [][(/\ request'.kind \in {"register", "heartbeat", "reset", "uptime-check"}
      /\ request'.key # apiKey)
     => /\ ~response'.success
        /\ response'.error = Unauthorized.error
        /\ UNCHANGED <<agents, lastAgentId, agentsFile, results, targetStatus, file>>]_vars

\* A reset without the header was turned away while the registry and the
\* store hold data.
BadKeyWitness ==
  /\ request.kind = "reset"
  /\ request.key = NoHeader
  /\ response.kind = "reset"
  /\ response.error = Unauthorized.error
  /\ agents # EmptyMap
  /\ results # EmptyMap
  /\ targetStatus # EmptyMap

\* ------------------------------------------------------------------------
\* Alert sink
\* ------------------------------------------------------------------------
\* C20: whether the webhook is unset, fails or answers, sendAlert raises
\* nothing, an accepted result leaves the records and target statuses
\* that addResult computes without regard to the webhook, and a
\* registration is answered with success.
AlertSinkNeverAffectsStore ==
  [][(/\ (request'.kind = "results" /\ posts' = posts + 1) =>
           (LET out == storeResults(results, targetStatus, request'.agentId,
                                    request'.result, now)
            IN /\ ~sendAlert(request'.webhook).raised
               /\ results' = out.results
               /\ targetStatus' = out.targetStatus
               /\ response'.success)
      /\ (request'.kind = "register") =>
           (/\ ~sendAlert(request'.webhook).raised
            /\ response'.success))]_vars

\* The second agent's failure turned the target down while the webhook
\* call failed, and the incident starts at that result.
FailingWebhookWitness ==
  /\ request.kind = "results"
  /\ request.webhook = "fails"
  /\ ~request.result.success
  /\ posts = 2
  /\ targetStatus[1].isDown
  /\ LET key == <<request.agentId, 1, getDateString(request.result.timestamp, now)>> IN
       /\ key \in DOMAIN results
       /\ results[key].isDown
       /\ results[key].incidents =
            <<[startTime |-> request.result.timestamp, endTime |-> Null]>>

\* ------------------------------------------------------------------------
\* Agent scheduling
\* ------------------------------------------------------------------------
TickersOf(t) == {id \in DOMAIN timers : timers[id].kind = "check" /\ timers[id].target = t}

Listed(t) == \E i \in 1..Len(monitor.targets) : monitor.targets[i].id = t

\* C13: once start() has completed and no target update is under way, the
\* agent has exactly one active ticker for each target of its list and
\* none for any other target.
OneTickerPerListedTarget ==
  (monitor.pc = "running" /\ monitor.poll = "idle") =>
    \A t \in TargetIds :
      Cardinality(TickersOf(t)) = IF Listed(t) THEN 1 ELSE 0

\* C14: no two checks of the same target are in progress at the same
\* time.
NoOverlappingChecks ==
  \A t \in TargetIds : monitor.checks[t] <= 1

\* C15: from the completion of start() until stop(), the heartbeat timer
\* and the update poller are both active.
HeartbeatAndPollerStayActive ==
  monitor.pc = "running" =>
    /\ \E id \in DOMAIN timers : timers[id].kind = "heartbeat"
    /\ \E id \in DOMAIN timers : timers[id].kind = "poll"

\* ------------------------------------------------------------------------
\* Persistence of the results store
\* ------------------------------------------------------------------------
\* C21: loading what saveResultsToFile writes gives back the same daily
\* records (agents, targets, dates, incidents, buckets, downtimeMs and
\* isDown), and saving the loaded store writes the same blob.
SaveLoadIsFixedPoint ==
  LET blob == saveResultsToFile(results)
      loaded == loadResultsFromFile(blob, EmptyMap, now)
  IN  /\ loaded.results = results
      /\ saveResultsToFile(loaded.results) = blob

\* The store holds an open incident, an ended incident and a bucket, and
\* has just been reloaded.
SaveLoadWitness ==
  /\ request.kind = "restart"
  /\ \E k \in DOMAIN results :
       \E i \in 1..Len(results[k].incidents) : results[k].incidents[i].endTime = Null
  /\ \E k \in DOMAIN results :
       \E i \in 1..Len(results[k].incidents) : results[k].incidents[i].endTime # Null
  /\ \E k \in DOMAIN results : results[k].responseTimeIntervals # <<>>

\* ------------------------------------------------------------------------
\* Response-time buckets
\* ------------------------------------------------------------------------
\* C22: every bucket has count >= 1 and avgResponseTime >= 0 (the average
\* is total / count), and no two buckets of a daily record share a
\* startTime.
BucketsWellFormed ==
  \A k \in DOMAIN results :
    LET buckets == results[k].responseTimeIntervals IN
      /\ \A i \in 1..Len(buckets) : buckets[i].count >= 1 /\ buckets[i].total >= 0
      /\ \A i \in 1..Len(buckets) : \A j \in 1..Len(buckets) :
           i # j => buckets[i].startTime # buckets[j].startTime

\* An online agent that has not been heard of for more than the threshold.
Overdue(id) ==
  /\ id \in DOMAIN agents
  /\ agents[id].status = "online"
  /\ now - agents[id].lastSeen > OFFLINE_THRESHOLD

\* C23: while the coordinator runs, an agent goes from online to offline
\* only in the liveness sweep; the sweep marks an online agent offline
\* exactly when now - lastSeen exceeds 120 s; register, heartbeat and result
\* submission only ever set a status to online.
OnlyTheSweepMarksOffline ==
  [][ /\ ((request'.kind # "restart") =>
            (\A id \in DOMAIN agents :
               (agents[id].status = "online" /\ agents'[id].status = "offline")
                 => (request'.kind = "sweep")))
      /\ ((request'.kind = "sweep") =>
            (\A id \in DOMAIN agents :
               IF Overdue(id)
               THEN agents'[id].status = "offline"
               ELSE agents'[id] = agents[id]))
      /\ ((request'.kind \in {"register", "heartbeat", "results"}) =>
            (\A id \in DOMAIN agents' :
               (id \notin DOMAIN agents \/ agents'[id] # agents[id])
                 => (agents'[id].status = "online")))
    ]_vars

\* A sweep has just marked one agent offline and left online another one
\* that was heard of exactly 120 s ago.
SweepAtThresholdWitness ==
  /\ request.kind = "sweep"
  /\ \E id \in DOMAIN agents :
       agents[id].status = "offline" /\ now - agents[id].lastSeen > OFFLINE_THRESHOLD
  /\ \E id \in DOMAIN agents :
       agents[id].status = "online" /\ now - agents[id].lastSeen = OFFLINE_THRESHOLD

\* C24: an agent that stops contacting the coordinator is eventually marked
\* offline by the sweep; an agent that heartbeats or registers is online
\* with lastSeen refreshed; after a coordinator restart every persisted
\* agent is offline until such a contact.
SilentAgentsGoOfflineContactsComeBack ==
  /\ \A id \in {"agent-1", "agent-2"} : Overdue(id) ~> ~Overdue(id)
  /\ [][ /\ ((request'.kind = "heartbeat" /\ response'.success) =>
                (/\ agents'[request'.agentId].status = "online"
                 /\ agents'[request'.agentId].lastSeen = now))
          /\ ((request'.kind = "register" /\ response'.success) =>
                (/\ agents'[response'.agentId].status = "online"
                 /\ agents'[response'.agentId].lastSeen = now))
          /\ ((request'.kind = "restart") =>
                (/\ DOMAIN agents' = DOMAIN agentsFile
                 /\ \A id \in DOMAIN agents' : agents'[id].status = "offline"))
          /\ ((request'.kind \in {"tick", "sweep"}) =>
                (\A id \in DOMAIN agents :
                   (agents[id].status = "offline") => (agents'[id].status = "offline")))
        ]_vars

\* An agent that was swept offline has heartbeated again and is online with
\* a fresh lastSeen, while a silent one is still offline.
BackOnlineWitness ==
  /\ request.kind = "heartbeat"
  /\ response.success
  /\ agents[request.agentId].status = "online"
  /\ agents[request.agentId].lastSeen = now
  /\ now > StartClock + OFFLINE_THRESHOLD
  /\ \E id \in DOMAIN agents :
       agents[id].status = "offline" /\ now - agents[id].lastSeen > OFFLINE_THRESHOLD

\* The record a processed result of request is folded into.
RecordKey(req, clock) ==
  <<req.agentId, req.result.targetId, getDateString(req.result.timestamp, clock)>>

HasOpenIncident(rec) ==
  /\ rec.isDown
  /\ Len(rec.incidents) > 0
  /\ rec.incidents[Len(rec.incidents)].endTime = Null

\* C25: a result whose timestamp is older than the startTime of the
\* record's open incident leaves the record's incident list, isDown flag and
\* downtimeMs unchanged, whatever its success value and the consensus.
StaleResultLeavesIncidentAlone ==
  [][ (/\ request'.kind = "results"
       /\ response'.success
       /\ RecordKey(request', now) \in DOMAIN results
       /\ HasOpenIncident(results[RecordKey(request', now)])
       /\ LET rec == results[RecordKey(request', now)] IN
            request'.result.timestamp < rec.incidents[Len(rec.incidents)].startTime)
      => LET key == RecordKey(request', now) IN
           /\ results'[key].incidents = results[key].incidents
           /\ results'[key].isDown = results[key].isDown
           /\ results'[key].downtimeMs = results[key].downtimeMs
    ]_vars

\* C26: when the day rolls over while an incident is open and the consensus
\* stays down, the first result of the new day opens no incident in the new
\* day's record.
RolloverOpensNoIncident ==
  [][ (/\ request'.kind = "results"
       /\ response'.success
       /\ RecordKey(request', now) \notin DOMAIN results
       /\ \E k \in DOMAIN results :
            /\ k[1] = request'.agentId
            /\ k[2] = request'.result.targetId
            /\ k[3] < RecordKey(request', now)[3]
            /\ HasOpenIncident(results[k])
       /\ request'.result.targetId \in DOMAIN targetStatus
       /\ targetStatus[request'.result.targetId].isDown
       /\ targetStatus'[request'.result.targetId].isDown)
      => results'[RecordKey(request', now)].incidents = <<>>
    ]_vars

\* The status of target t as a coordinator started now would rebuild it
\* from the saved results.
RebuiltStatus(t) ==
  getOrCreateTargetStatus(
    loadResultsFromFile(saveResultsToFile(results), EmptyMap, now).targetStatus, t, now)[t]

\* C27: the derived target status survives a restart: the status rebuilt
\* from the saved results has the same consensus isDown and the same
\* agentsReporting map as the status in memory.
StatusSurvivesRestart ==
  \A t \in DOMAIN targetStatus :
    /\ RebuiltStatus(t).isDown = targetStatus[t].isDown
    /\ RebuiltStatus(t).agentsReporting = targetStatus[t].agentsReporting

\* The consensus part of the statement on its own.
ConsensusSurvivesRestart ==
  \A t \in DOMAIN targetStatus : RebuiltStatus(t).isDown = targetStatus[t].isDown

\* C28: whenever a target is installed on the agent, at startup and after a
\* target-set update, a check of that target is begun immediately, before
\* the first tick of its interval.
InstalledTargetsAreCheckedAtOnce ==
  [][ (request'.kind \in {"started", "updated"}) =>
        (\A i \in 1..Len(monitor'.targets) :
           monitor'.checks[monitor'.targets[i].id]
             > monitor.checks[monitor'.targets[i].id])
    ]_vars

CheckTimers == {id \in DOMAIN timers : timers[id].kind = "check"}

\* C29: register, fetchTargets and submitResult each send at most 3
\* requests and then end: a call in progress has sent fewer than 3; when
\* submitResult gives up, the result is dropped (the call is gone and
\* nothing is stored) and the target's interval stays set; when register
\* or fetchTargets gives up, start() fails and the process ends.
RetriesAreBoundedAndFinal ==
  /\ [](\A i \in 1..Len(monitor.calls) :
          /\ monitor.calls[i].attempts < maxRetries
          /\ monitor.calls[i].retries = monitor.calls[i].attempts)
  /\ [][ (request'.kind = "attempt") =>
           (/\ request'.attempts <= maxRetries
            /\ ((request'.ended = "failed" /\ request'.outcome = "throws")
                  => (request'.attempts = maxRetries))
            /\ ((request'.ended = "failed" /\ request'.op = "submitResult") =>
                  (/\ monitor'.calls = RemoveAt(monitor.calls, request'.index)
                   /\ monitor'.dropped = monitor.dropped + 1
                   /\ monitor'.isRunning
                   /\ timers' = timers
                   /\ CheckTimers # {}
                   /\ UNCHANGED <<agents, storeVars>>))
            /\ ((request'.ended = "failed" /\ request'.op # "submitResult") =>
                  (/\ monitor'.pc = "failed"
                   /\ ~monitor'.isRunning
                   /\ monitor'.calls = <<>>
                   /\ timers' = EmptyMap
                   /\ UNCHANGED <<storeVars>>)))
       ]_vars

\* submitResult has just given up after its third request: nothing was
\* stored, no call is left and the target's interval is still set.
DroppedResultWitness ==
  /\ request.kind = "attempt"
  /\ request.op = "submitResult"
  /\ request.ended = "failed"
  /\ request.attempts = maxRetries
  /\ monitor.dropped = 1
  /\ monitor.calls = <<>>
  /\ posts = 0
  /\ CheckTimers # {}

\* C30: on coordinator shutdown the results store is flushed before the
\* process exits: at the moment of exit the persisted blob equals the
\* in-memory results.
FlushedAtExit ==
  (request.kind = "exit") => (file = saveResultsToFile(results))

\* C31: saves of the results store never interleave: once every pending
\* save has completed, the results file equals the in-memory store.
SavesAreSerialised ==
  (Running /\ log = <<>>) => (file = saveResultsToFile(results))

\* C32: agent ids are never recycled: each newly minted id agent-N has N
\* greater than the number of every id minted before it.
MintedIdsIncrease ==
  \A i \in 1..Len(log) : \A j \in 1..Len(log) :
    (i < j) => (NumericAgentId(log[i]) < NumericAgentId(log[j]))

\* The buckets of a record, none when the record does not exist yet.
IntervalsOf(res, key) ==
  IF key \in DOMAIN res THEN res[key].responseTimeIntervals ELSE <<>>

\* The summed count of the buckets whose half-open 30-minute interval
\* contains the timestamp.
CountAt(intervals, timestamp) ==
  LET start == (timestamp \div ThirtyMinutes) * ThirtyMinutes
      hits == {i \in 1..Len(intervals) : intervals[i].startTime = start}
      RECURSIVE Total(_)
      Total(S) == IF S = {} THEN 0
                  ELSE LET i == CHOOSE x \in S : TRUE
                       IN  intervals[i].count + Total(S \ {i})
  IN  Total(hits)

\* C33: every successful result that carries a responseTime, 0 included,
\* increments by one the count of the bucket containing its timestamp, and a
\* failed result leaves the buckets as they are.
EverySuccessIsCounted ==
  [][ (request'.kind = "results" /\ response'.success) =>
        LET r == request'.result
            key == RecordKey(request', now)
        IN  IF r.success /\ r.responseTime # Null
            THEN CountAt(IntervalsOf(results', key), r.timestamp)
                   = CountAt(IntervalsOf(results, key), r.timestamp) + 1
            ELSE IntervalsOf(results', key) = IntervalsOf(results, key)
    ]_vars

\* C34: for one agent and one target the results reach the coordinator in
\* non-decreasing order of their timestamps, retries included.
DeliveredInTimestampOrder ==
  \A i \in 1..Len(log) : \A j \in 1..Len(log) :
    (i < j /\ log[i].targetId = log[j].targetId)
      => (log[i].timestamp <= log[j].timestamp)

\* C35: GET /api/results is not served from the TTL cache: its answer
\* always reflects the results submitted so far.
StoredResultsAreFresh ==
  (response.kind = "stored-results") =>
    (response.results = [k \in getResults(results) |-> results[k]])

\* C36: processing a result of agent X for target T changes only X's daily
\* record for T on the date of the result's timestamp and T's TargetStatus;
\* no other record and no other target's status is created or modified.
OnlyOwnRecordAndStatusChange ==
  [][ (request'.kind = "results" /\ response'.success) =>
        (/\ DOMAIN results' = DOMAIN results \cup {RecordKey(request', now)}
         /\ \A k \in DOMAIN results :
              (k # RecordKey(request', now)) => (results'[k] = results[k])
         /\ DOMAIN targetStatus' = DOMAIN targetStatus \cup {request'.result.targetId}
         /\ \A t \in DOMAIN targetStatus :
              (t # request'.result.targetId) => (targetStatus'[t] = targetStatus[t]))
    ]_vars

\* A result has been processed while the store held records of the other
\* agent, of the other target and of the other day, and a status of the
\* other target.
OtherRecordsWitness ==
  /\ request.kind = "results"
  /\ response.success
  /\ \E k \in DOMAIN results : k[1] # request.agentId
  /\ \E k \in DOMAIN results : k[2] # request.result.targetId
  /\ \E k \in DOMAIN results :
       /\ k[1] = request.agentId
       /\ k[2] = request.result.targetId
       /\ k[3] # RecordKey(request, now)[3]
  /\ DOMAIN targetStatus = {1, 2}
  /\ targetStatus[1].isDown # targetStatus[2].isDown

\* C37: whenever submitResult returns without error, the coordinator has
\* accepted and processed the result; a refusal of the coordinator is never
\* taken for a delivery.
DeliveredMeansProcessed ==
  [][ (/\ request'.kind = "attempt"
       /\ request'.op = "submitResult"
       /\ request'.ended = "ok")
      => (response'.success /\ posts' = posts + 1)
    ]_vars

\* The consensus of a target, up when the target has no status yet.
ConsensusDown(st, t) == t \in DOMAIN st /\ st[t].isDown

\* C38: the consensus only moves in the direction of the result that
\* triggers the step: a failure never turns it from down to up and a
\* success never turns it from up to down, for any number of agents.
ConsensusFollowsTheResult ==
  [][ (request'.kind = "results" /\ response'.success) =>
        LET t == request'.result.targetId IN
          IF request'.result.success
          THEN ConsensusDown(targetStatus', t) => ConsensusDown(targetStatus, t)
          ELSE ConsensusDown(targetStatus, t) => ConsensusDown(targetStatus', t)
    ]_vars

\* The second agent has just reported for the first time, a failure, and
\* the target that the single agent had down is still down.
SecondAgentWitness ==
  /\ request.kind = "results"
  /\ ~request.result.success
  /\ posts = 2
  /\ Cardinality(DOMAIN targetStatus[1].agentsReporting) = 2
  /\ \A a \in DOMAIN targetStatus[1].agentsReporting : targetStatus[1].agentsReporting[a]
  /\ targetStatus[1].isDown

\* The record holds an open incident while the consensus of its target is up.
OpenWhileUp(k) ==
  /\ k \in DOMAIN results
  /\ HasOpenIncident(results[k])
  /\ ~ConsensusDown(targetStatus, k[2])

\* C39: once the consensus has returned to up and the owning agent goes on
\* submitting, every open incident is eventually closed, also when the day
\* rolled over while it was open.
OpenIncidentsGetClosed ==
  \A k \in RolloverKeys : OpenWhileUp(k) ~> ~OpenWhileUp(k)

\* C40: the load the constructor starts never discards data: a result
\* accepted before the load completes is in the store once it has completed,
\* and the status of its target still counts its agent.
LoadKeepsAcceptedResults ==
  LoadStage = "done" =>
    \A k \in log[1].accepted :
      /\ k \in DOMAIN results
      /\ k[2] \in DOMAIN targetStatus
      /\ k[1] \in DOMAIN targetStatus[k[2]].agentsReporting

=============================================================================
